---- MODULE Spec2Model ----
(***************************************************************************)
(* Model of the logo acquisition pipeline of fleveque/logo-service:        *)
(* the metadata store (SQLite table logos), the blob store (PNG files),    *)
(* the image processor and the orchestrator LogoService, driven by         *)
(* concurrent request goroutines.  Every store call is one atomic step.    *)
(***************************************************************************)
EXTENDS Integers, Sequences, FiniteSets, TLC

VARIABLES
    logos,        \* table logos: symbol -> row, or NoRecord
    nextId,       \* AUTOINCREMENT counter of table logos
    blobs,        \* files {baseDir}/{SYMBOL}/{size}.png: <<symbol, size>> -> bytes, or NoBlob
    task,         \* per goroutine: the running call, its locals and its position
    repos,        \* GitHubProvider.repos (configuration)
    llmProvider,  \* LogoService.llmProvider: the configured client names, <<>> when nil
    producedBy,   \* history: per symbol, the size map of the run that last set it processed
    running,      \* the goroutines that serve calls in this run
    calls,        \* number of calls started so far
    faults,       \* number of storage errors injected so far
    disk,         \* FileSystem: the file at a path, as os.WriteFile and os.ReadFile see it
    writer,       \* the goroutine inside FileSystem.Write
    reader,       \* the goroutine inside FileSystem.Read
    limiter,      \* LLMProvider.limiter: the time at which its bucket holds a token again
    now,          \* the clock, in limiter intervals
    llmCalls,     \* table llm_calls: the audit rows, in insertion order
    backends,     \* what each LLM backend answers in this run
    req,          \* per goroutine: its call of LLMProvider.GetLogo
    agent,        \* a call of Client.FindLogoURL: the agentic loop of one backend
    github,       \* per repository, what the GitHub tree API lists for it
    imp,          \* the goroutine inside GitHubProvider.BulkImport
    http          \* the request inside LogoHandler.GetLogo and its response

(* the variables of the pipeline *)
Core == <<logos, nextId, blobs, task, repos, llmProvider, producedBy, running, calls, faults>>

(* the variables of the components that are modelled on their own *)
FsVars == <<disk, writer, reader>>

LlmVars == <<limiter, now, llmCalls, backends, req>>

AgentVars == <<agent>>

ImportVars == <<github, imp>>

HttpVars == <<http>>

Rest == <<FsVars, LlmVars, AgentVars, ImportVars, HttpVars>>

(* what the actions of one component leave alone *)
FsOthers == <<Core, LlmVars, AgentVars, ImportVars, HttpVars>>
LlmOthers == <<Core, FsVars, AgentVars, ImportVars, HttpVars>>
AgentOthers == <<Core, FsVars, LlmVars, ImportVars, HttpVars>>
ImportOthers == <<Core, FsVars, LlmVars, AgentVars, HttpVars>>

vars == <<Core, Rest>>

----------------------------------------------------------------------------
(* Bounds of the model *)

MaxCalls == 3
MaxFaults == 1

Workers == {"w1", "w2"}
Symbols == {"AAPL"}

(* The bytes a provider can hand over.  What bimg makes of them is a       *)
(* function of the bytes and the target size: "png" resizes at every size, *)
(* "ico" fails at the largest size only, "junk" fails at every size.       *)
Images == {"png", "ico", "junk"}

(* The sizes requests ask for: the handler's default, and the largest *)
ReqSizes == {"m", "xl"}

(* The configurations: <<GitHubProvider.repos, the LLM clients>> *)
Configs == {<< << >>, <<"anthropic">> >>,
            << <<"davidepalazzo/ticker-logos">>, << >> >>,
            << <<"davidepalazzo/ticker-logos">>, <<"anthropic">> >>}

----------------------------------------------------------------------------
(* model: sizes, statuses, Logo *)

AllSizes == <<"xs", "s", "m", "l", "xl">>

SizePixels == ("xs" :> 16) @@ ("s" :> 32) @@ ("m" :> 64) @@ ("l" :> 128) @@ ("xl" :> 256)

Sizes == DOMAIN SizePixels

StatusPending == "pending"
StatusProcessed == "processed"
StatusFailed == "failed"
StatusNotFound == "not_found"

NoRecord == [absent |-> TRUE]
NoBlob == [missing |-> TRUE]
(* error_message is a nullable TEXT column, *string in Logo *)
NULL == [valid |-> FALSE]
String(text) == [valid |-> TRUE, text |-> text]
NoImage == "none"

HasSize(logo, size) == size \in logo.flags

ToUpper(s) ==
    CASE s = "aapl" -> "AAPL"
      [] s = "msft" -> "MSFT"
      [] OTHER -> s

Range(seq) == {seq[i] : i \in 1..Len(seq)}

----------------------------------------------------------------------------
(* storage: sqliteLogoRepository.  Each operator returns the new table and *)
(* the error; fail = TRUE is a storage error of the call.                  *)

ErrNil == "nil"
ErrNotFound == "logo not found"
ErrStorage == "storage error"

GetBySymbol(db, symbol, fail) ==
    IF fail THEN [err |-> ErrStorage, logo |-> NoRecord]
    ELSE IF db[symbol] = NoRecord THEN [err |-> ErrNotFound, logo |-> NoRecord]
    ELSE [err |-> ErrNil, logo |-> db[symbol]]

(* variant: INSERT OR REPLACE, a second Create takes the row over *)
RepoCreateReplaces(db, id, logo, fail) ==
    IF fail
    THEN [err |-> "creating logo", db |-> db, id |-> id]
    ELSE [err |-> ErrNil,
          db |-> [db EXCEPT ![logo.symbol] =
                    [id |-> id, symbol |-> logo.symbol, source |-> logo.source,
                     flags |-> {}, status |-> logo.status, error_message |-> NULL]],
          id |-> id + 1]

(* sqliteLogoRepository.Create: a plain INSERT; the UNIQUE constraint on *)
(* symbol rejects a second row; logo.ID = LastInsertId (AUTOINCREMENT)   *)
RepoCreate(db, id, logo, fail) ==
    IF fail \/ db[logo.symbol] # NoRecord
    THEN [err |-> "creating logo", db |-> db, id |-> id]
    ELSE [err |-> ErrNil,
          db |-> [db EXCEPT ![logo.symbol] =
                    [id |-> id, symbol |-> logo.symbol, source |-> logo.source,
                     flags |-> {}, status |-> logo.status, error_message |-> NULL]],
          id |-> id + 1]

(* variant: the UPDATE writes all five has_ columns, the others as 0 *)
SetSizeAvailableOnly(db, symbol, size, fail) ==
    IF size \notin Sizes THEN [err |-> "invalid size", db |-> db]
    ELSE IF fail THEN [err |-> "setting size", db |-> db]
    ELSE IF db[symbol] = NoRecord THEN [err |-> ErrNil, db |-> db]
    ELSE [err |-> ErrNil, db |-> [db EXCEPT ![symbol].flags = {size}]]

SetSizeAvailable(db, symbol, size, fail) ==
    IF size \notin Sizes THEN [err |-> "invalid size", db |-> db]
    ELSE IF fail THEN [err |-> "setting size", db |-> db]
    ELSE IF db[symbol] = NoRecord THEN [err |-> ErrNil, db |-> db]
    ELSE [err |-> ErrNil, db |-> [db EXCEPT ![symbol].flags = @ \cup {size}]]

(* variant: an empty errMsg leaves the error_message column as it is *)
SetStatusKeepsMessage(db, symbol, status, errMsg, fail) ==
    IF fail THEN [err |-> "setting status", db |-> db]
    ELSE IF db[symbol] = NoRecord THEN [err |-> ErrNil, db |-> db]
    ELSE IF errMsg # << >>
    THEN [err |-> ErrNil,
          db |-> [db EXCEPT ![symbol].status = status,
                            ![symbol].error_message = String(errMsg)]]
    ELSE [err |-> ErrNil, db |-> [db EXCEPT ![symbol].status = status]]

(* variant: the UPDATE of the status also resets the has_ columns *)
SetStatusResetsFlags(db, symbol, status, errMsg, fail) ==
    IF fail THEN [err |-> "setting status", db |-> db]
    ELSE IF db[symbol] = NoRecord THEN [err |-> ErrNil, db |-> db]
    ELSE [err |-> ErrNil,
          db |-> [db EXCEPT ![symbol].status = status, ![symbol].flags = {},
                            ![symbol].error_message =
                                IF errMsg # << >> THEN String(errMsg) ELSE NULL]]

SetStatus(db, symbol, status, errMsg, fail) ==
    IF fail THEN [err |-> "setting status", db |-> db]
    ELSE IF db[symbol] = NoRecord THEN [err |-> ErrNil, db |-> db]
    ELSE IF errMsg # << >>
    THEN [err |-> ErrNil,
          db |-> [db EXCEPT ![symbol].status = status,
                            ![symbol].error_message = String(errMsg)]]
    ELSE [err |-> ErrNil,
          db |-> [db EXCEPT ![symbol].status = status, ![symbol].error_message = NULL]]

(* storage: FileSystem *)

(* variant: LogoPath drops the size, every read opens xs.png *)
FsReadAnySize(fs, symbol, size) ==
    IF fs[<<symbol, "xs">>] = NoBlob
    THEN [err |-> "logo file not found", data |-> NoBlob]
    ELSE [err |-> ErrNil, data |-> fs[<<symbol, "xs">>]]

FsRead(fs, symbol, size) ==
    IF fs[<<symbol, size>>] = NoBlob
    THEN [err |-> "logo file not found", data |-> NoBlob]
    ELSE [err |-> ErrNil, data |-> fs[<<symbol, size>>]]

FsWrite(fs, symbol, size, data, fail) ==
    IF fail THEN [err |-> "writing logo file", fs |-> fs]
    ELSE [err |-> ErrNil, fs |-> [fs EXCEPT ![<<symbol, size>>] = data]]

(* FileSystem.Exists: os.Stat of the path returns no error *)
FsExists(fs, symbol, size) == fs[<<symbol, size>>] # NoBlob

(* variant: the directory removed is baseDir *)
FsDeleteSymbolBase(fs, symbol) == [k \in DOMAIN fs |-> NoBlob]

(* FileSystem.DeleteSymbol: os.RemoveAll of the symbol's directory, which *)
(* returns nil when the directory is not there                            *)
FsDeleteSymbol(fs, symbol) ==
    [k \in DOMAIN fs |-> IF k[1] = symbol THEN NoBlob ELSE fs[k]]

----------------------------------------------------------------------------
(* service: ImageProcessor *)

BimgFails(imageData, pixels) ==
    \/ imageData = "junk"
    \/ imageData = "ico" /\ pixels = SizePixels["xl"]

resizeToSquarePNG(imageData, pixels) ==
    IF BimgFails(imageData, pixels)
    THEN [err |-> "resizing", data |-> NoBlob]
    ELSE [err |-> ErrNil,
          data |-> [type |-> "png", src |-> imageData, width |-> pixels, height |-> pixels]]

(* variant: the aggregated error loses its text *)
ProcessingErrorEmpty(errs) == << >>

(* fmt.Errorf("processing errors: %s", strings.Join(errs, "; ")) *)
ProcessingError(errs) == <<"processing errors">> \o errs

----------------------------------------------------------------------------
(* provider: GitHubProvider.GetLogo.  avail is the set of repositories     *)
(* whose download of ticker_icons/SYMBOL.png succeeds at this moment.      *)

RECURSIVE FirstRepo(_, _, _)
FirstRepo(rs, i, avail) ==
    IF i > Len(rs) THEN 0
    ELSE IF rs[i] \in avail THEN i
    ELSE FirstRepo(rs, i + 1, avail)

GitHubGetLogo(rs, symbol, avail, data) ==
    LET i == FirstRepo(rs, 1, avail) IN
    IF i = 0
    THEN [err |-> "not found in any GitHub repo", symbol |-> ToUpper(symbol),
          image |-> NoImage, source |-> << >>, tried |-> rs]
    ELSE [err |-> ErrNil, symbol |-> ToUpper(symbol), image |-> data,
          source |-> <<"github", rs[i]>>,
          tried |-> SubSeq(rs, 1, i)]

----------------------------------------------------------------------------
(* The goroutines.  A goroutine runs one call at a time: LogoService.GetLogo, *)
(* LogoService.ProcessAndStore, or the bulk-import callback.                  *)

NoResult == [symbol |-> "none", image |-> NoImage, source |-> << >>]
NoRet == [err |-> "running", data |-> NoBlob]

IdleTask ==
    [pc |-> "idle", op |-> "none", symbol |-> "none", size |-> "none",
     result |-> NoResult, idx |-> 1, results |-> << >>, errs |-> << >>,
     todo |-> {}, trace |-> << >>, hit |-> FALSE, seen |-> "none",
     cache |-> [seen |-> "none", blob |-> NoBlob],
     wrote |-> FALSE, ret |-> NoRet]

FaultChoices == IF faults < MaxFaults THEN {FALSE, TRUE} ELSE {FALSE}

Inject(f) == faults' = IF f THEN faults + 1 ELSE faults

(* the callback of the CLI passes the context of the import to the       *)
(* repository: once it is cancelled every statement fails with ctx.Err() *)
CtxCancelled == imp.callback = "runGitHubImport" /\ imp.ctx = "cancelled"

(* the outcomes of a call of the repository: fail = TRUE or FALSE *)
DbFaultChoices == IF CtxCancelled THEN {TRUE} ELSE FaultChoices

DbInject(f) == faults' = IF f /\ ~CtxCancelled THEN faults + 1 ELSE faults

(* A goroutine may take a new call.  In the runs of two goroutines each *)
(* serves a single call, so that the two calls overlap in every way.   *)
Free(w) ==
    /\ w \in running
    /\ calls < MaxCalls
    /\ task[w].pc \in (IF running = Workers THEN {"idle"} ELSE {"idle", "done"})

(* Sources a caller of ProcessAndStore can name in its result *)
Sources == {<<"llm", "anthropic">>}

Config == <<repos, llmProvider, running>>

(* The states in which the components modelled on their own are at rest *)

(* FileSystem: a file is absent, or holds a sequence of bytes *)
NoFile == [exists |-> FALSE, data |-> << >>]
File(data) == [exists |-> TRUE, data |-> data]

IdleWriter == [pc |-> "idle", data |-> << >>, off |-> 0, prev |-> NoFile]
IdleReader == [pc |-> "idle", buf |-> << >>, n |-> 0, overlap |-> FALSE,
               ret |-> [err |-> "running", data |-> << >>]]

FsIdle == disk = NoFile /\ writer = IdleWriter /\ reader = IdleReader

(* LLMProvider: errors are sequences of strings, << >> is nil *)
NoLlmRet == [err |-> <<"running">>, symbol |-> "none", source |-> << >>]

IdleReq ==
    [pc |-> "idle", symbol |-> "none", i |-> 0, ctx |-> "live", at |-> 0, reserved |-> 0,
     waited |-> FALSE, findErr |-> << >>, lastErr |-> << >>, invoked |-> << >>,
     grants |-> << >>, attempts |-> << >>, audited |-> << >>,
     cancelledInWait |-> FALSE, ret |-> NoLlmRet]

LlmClients == {"anthropic", "openai"}

LlmIdle ==
    /\ limiter = 0 /\ now = 0 /\ llmCalls = << >>
    /\ backends = [c \in LlmClients |-> "ok"]
    /\ req = [w \in Workers |-> IdleReq]

(* Client.FindLogoURL *)
NoSearchResult == [LogoURL |-> "", CompanyName |-> ""]

IdleAgent ==
    [pc |-> "idle", client |-> "none", i |-> 0, sent |-> 0, history |-> << >>,
     ret |-> [err |-> "running", result |-> NoSearchResult]]

AgentIdle == agent = IdleAgent

(* LogoHandler: no request yet.  A query string is a sequence of characters *)
IdleHttp ==
    [pc |-> "idle", symbol |-> "none", size |-> "none", bg |-> << >>,
     code |-> 0, body |-> NoBlob,
     color |-> [err |-> "running", r |-> 0, g |-> 0, b |-> 0],
     \* the process has received SIGINT or SIGTERM
     signal |-> FALSE,
     \* history: the request answered before this one, and its response
     prev |-> [symbol |-> "none", size |-> "none", bg |-> << >>,
               code |-> 0, body |-> NoBlob]]

HttpIdle == http = IdleHttp

(* GitHubProvider.BulkImport *)
NoStats == [Total |-> 0, Imported |-> 0, Skipped |-> 0, Failed |-> 0, Errors |-> << >>]

IdleImport ==
    [pc |-> "idle", callback |-> "none", ctx |-> "live", r |-> 0, e |-> 0,
     stats |-> NoStats, repoStats |-> NoStats, was |-> NoStats, log |-> << >>,
     runs |-> 0, before |-> << >>, ret |-> [err |-> "running", stats |-> NoStats]]

ImportIdle == github = << >> /\ imp = IdleImport

RestIdle == FsIdle /\ LlmIdle /\ AgentIdle /\ HttpIdle /\ ImportIdle

(* the pipeline at rest: empty stores, no call, no provider *)
CoreIdle ==
    /\ logos = [s \in Symbols |-> NoRecord]
    /\ nextId = 1
    /\ blobs = [k \in Symbols \X Sizes |-> NoBlob]
    /\ task = [w \in Workers |-> IdleTask]
    /\ producedBy = [s \in Symbols |-> {}]
    /\ running = {} /\ calls = 0 /\ faults = 0

NoProviders == repos = << >> /\ llmProvider = << >>

Init ==
    /\ logos = [s \in Symbols |-> NoRecord]
    /\ nextId = 1
    /\ blobs = [k \in Symbols \X Sizes |-> NoBlob]
    /\ task = [w \in Workers |-> IdleTask]
    /\ \E c \in Configs : repos = c[1] /\ llmProvider = c[2]
    /\ producedBy = [s \in Symbols |-> {}]
    /\ calls = 0
    \* storage errors are injected in the runs of a single goroutine only
    /\ \/ running = Workers /\ faults = MaxFaults
       \/ running = {"w1"} /\ faults = 0
    /\ RestIdle

(* a request handler calls LogoService.GetLogo(ctx, symbol, size) *)
CallGetLogo(w) ==
    /\ Free(w)
    /\ \E symbol \in DOMAIN logos, size \in ReqSizes :
         task' = [task EXCEPT ![w] =
                    [IdleTask EXCEPT !.pc = "fromCache", !.op = "GetLogo",
                                     !.symbol = symbol, !.size = size]]
    /\ calls' = calls + 1
    /\ UNCHANGED <<logos, nextId, blobs, producedBy, faults, Config, Rest>>

(* a caller hands a provider result to LogoService.ProcessAndStore *)
CallProcessAndStore(w) ==
    /\ Free(w)
    /\ \E symbol \in DOMAIN logos, image \in Images, source \in Sources :
         task' = [task EXCEPT ![w] =
                    [IdleTask EXCEPT !.pc = "upsert", !.op = "ProcessAndStore",
                                     !.symbol = symbol,
                                     !.result = [symbol |-> symbol, image |-> image,
                                                 source |-> source]]]
    /\ calls' = calls + 1
    /\ UNCHANGED <<logos, nextId, blobs, producedBy, faults, Config, Rest>>

(* GitHubProvider.importFromRepo hands a downloaded file to the callback *)
CallImportCallback(w) ==
    /\ Free(w)
    /\ \E symbol \in DOMAIN logos, image \in Images, repo \in Range(repos) :
         task' = [task EXCEPT ![w] =
                    [IdleTask EXCEPT !.pc = "callback", !.op = "ImportCallback",
                                     !.symbol = symbol,
                                     !.result = [symbol |-> ToUpper(symbol), image |-> image,
                                                 source |-> <<"github", repo>>]]]
    /\ calls' = calls + 1
    /\ UNCHANGED <<logos, nextId, blobs, producedBy, faults, Config, Rest>>

(* history: what a lookup told the call *)
Seen(got) ==
    IF got.err # ErrNil THEN got.err ELSE got.logo.status

(* The call returns err (and data) to its caller *)
Return(t, err, data) == [t EXCEPT !.pc = "done", !.ret = [err |-> err, data |-> data]]

----------------------------------------------------------------------------
(* LogoService.fromCache: the metadata lookup and the two checks *)
FromCacheLookup(w) ==
    LET t == task[w] IN
    /\ t.pc = "fromCache"
    /\ \E f \in DbFaultChoices :
         LET got == GetBySymbol(logos, t.symbol, f)
             ok == /\ got.err = ErrNil
                   /\ got.logo.status = StatusProcessed
                   /\ HasSize(got.logo, t.size)
         IN /\ task' = [task EXCEPT ![w] =
                          [t EXCEPT !.pc = IF ok THEN "cacheRead" ELSE "acquire",
                                    !.hit = ok,
                                    !.cache = [seen |-> Seen(got),
                                               blob |-> blobs[<<t.symbol, t.size>>]]]]
            /\ DbInject(f)
    /\ UNCHANGED <<logos, nextId, blobs, producedBy, calls, Config, Rest>>

(* LogoService.fromCache: s.fs.Read; GetLogo returns the data when err == nil *)
FromCacheRead(w) ==
    LET t == task[w]
        rd == FsRead(blobs, t.symbol, t.size)
    IN
    /\ t.pc = "cacheRead"
    /\ task' = [task EXCEPT ![w] =
                  IF rd.err = ErrNil THEN Return(t, ErrNil, rd.data)
                  ELSE [t EXCEPT !.pc = "acquire"]]
    /\ UNCHANGED <<logos, nextId, blobs, producedBy, calls, faults, Config, Rest>>

(* variant: acquire goes on to the LLM layer without the nil check *)
AcquireGitHubNoNilCheck(w) ==
    LET t == task[w] IN
    /\ t.pc = "acquire"
    /\ \E avail \in SUBSET Range(repos), image \in Images :
         LET r == GitHubGetLogo(repos, t.symbol, avail, image)
             tr == Append(t.trace, "github")
         IN task' = [task EXCEPT ![w] =
                IF r.err = ErrNil
                THEN [t EXCEPT !.pc = "upsert", !.trace = tr,
                               !.result = [symbol |-> r.symbol, image |-> r.image,
                                           source |-> r.source]]
                ELSE [t EXCEPT !.pc = "acquireLLM", !.trace = tr]]
    /\ UNCHANGED <<logos, nextId, blobs, producedBy, calls, faults, Config, Rest>>

(* LogoService.acquire, layer 2: s.ghProvider.GetLogo *)
AcquireGitHub(w) ==
    LET t == task[w] IN
    /\ t.pc = "acquire"
    /\ \E avail \in SUBSET Range(repos), image \in Images :
         LET r == GitHubGetLogo(repos, t.symbol, avail, image)
             tr == Append(t.trace, "github")
         IN task' = [task EXCEPT ![w] =
                IF r.err = ErrNil
                THEN [t EXCEPT !.pc = "upsert", !.trace = tr,
                               !.result = [symbol |-> r.symbol, image |-> r.image,
                                           source |-> r.source]]
                ELSE IF llmProvider # << >>
                THEN [t EXCEPT !.pc = "acquireLLM", !.trace = tr]
                ELSE Return([t EXCEPT !.trace = tr], "no provider found a logo", NoBlob)]
    /\ UNCHANGED <<logos, nextId, blobs, producedBy, calls, faults, Config, Rest>>

(* variant: the result names the layer only, not the backend *)
AcquireLLMUnnamed(w) ==
    LET t == task[w] IN
    /\ t.pc = "acquireLLM"
    /\ \E client \in 0..Len(llmProvider), image \in Images :
         LET tr == Append(t.trace, "llm") IN
         task' = [task EXCEPT ![w] =
                IF client # 0
                THEN [t EXCEPT !.pc = "upsert", !.trace = tr,
                               !.result = [symbol |-> t.symbol, image |-> image,
                                           source |-> <<"llm">>]]
                ELSE Return([t EXCEPT !.trace = tr], "no provider found a logo", NoBlob)]
    /\ UNCHANGED <<logos, nextId, blobs, producedBy, calls, faults, Config, Rest>>

(* variant: a miss of every provider is remembered as a record *)
AcquireLLMNegativeCache(w) ==
    LET t == task[w] IN
    /\ t.pc = "acquireLLM"
    /\ \E client \in 0..Len(llmProvider), image \in Images :
         LET tr == Append(t.trace, "llm") IN
         /\ task' = [task EXCEPT ![w] =
                IF client # 0
                THEN [t EXCEPT !.pc = "upsert", !.trace = tr,
                               !.result = [symbol |-> t.symbol, image |-> image,
                                           source |-> <<"llm", llmProvider[client]>>]]
                ELSE Return([t EXCEPT !.trace = tr], "no provider found a logo", NoBlob)]
         /\ logos' = IF client = 0 /\ logos[t.symbol] = NoRecord
                     THEN [logos EXCEPT ![t.symbol] =
                             [id |-> nextId, symbol |-> t.symbol, source |-> << >>,
                              flags |-> {}, status |-> StatusNotFound,
                              error_message |-> NULL]]
                     ELSE logos
    /\ UNCHANGED <<nextId, blobs, producedBy, calls, faults, Config, Rest>>

(* LogoService.acquire, layer 3: s.llmProvider.GetLogo.  client = 0: every *)
(* client failed; otherwise the first client that succeeded.               *)
AcquireLLM(w) ==
    LET t == task[w] IN
    /\ t.pc = "acquireLLM"
    /\ \E client \in 0..Len(llmProvider), image \in Images :
         LET tr == Append(t.trace, "llm") IN
         task' = [task EXCEPT ![w] =
                IF client # 0
                THEN [t EXCEPT !.pc = "upsert", !.trace = tr,
                               !.result = [symbol |-> t.symbol, image |-> image,
                                           source |-> <<"llm", llmProvider[client]>>]]
                ELSE Return([t EXCEPT !.trace = tr], "no provider found a logo", NoBlob)]
    /\ UNCHANGED <<logos, nextId, blobs, producedBy, calls, faults, Config, Rest>>

----------------------------------------------------------------------------
(* LogoService.processAndStore, shared by GetLogo and ProcessAndStore.  The *)
(* bulk-import callback repeats its steps after its own lookup.             *)

(* processAndStore returned err: GetLogo goes on to read the blob, or fails *)
Finish(t, err) ==
    IF t.op = "GetLogo" /\ err = ErrNil
    THEN [t EXCEPT !.pc = "finalRead"]
    ELSE Return(t, err, NoBlob)

(* variant: the upsert reprocesses whatever record it finds *)
UpsertReprocesses(w) ==
    LET t == task[w] IN
    /\ t.pc = "upsert"
    /\ \E f \in DbFaultChoices :
         LET got == GetBySymbol(logos, t.result.symbol, f)
             t1 == [t EXCEPT !.seen = Seen(got)]
         IN /\ task' = [task EXCEPT ![w] =
                  IF got.err = ErrNotFound
                  THEN [t1 EXCEPT !.pc = "create"]
                  ELSE [t1 EXCEPT !.pc = "processAll"]]
            /\ DbInject(f)
    /\ UNCHANGED <<logos, nextId, blobs, producedBy, calls, Config, Rest>>

(* the upsert's lookup: skip if already processed, create if ErrNotFound *)
Upsert(w) ==
    LET t == task[w] IN
    /\ t.pc = "upsert"
    /\ \E f \in DbFaultChoices :
         LET got == GetBySymbol(logos, t.result.symbol, f)
             t1 == [t EXCEPT !.seen = Seen(got)]
         IN /\ task' = [task EXCEPT ![w] =
                  IF got.err = ErrNil /\ got.logo.status = StatusProcessed
                  THEN Finish(t1, ErrNil)
                  ELSE IF got.err = ErrNotFound
                  THEN [t1 EXCEPT !.pc = "create"]
                  ELSE [t1 EXCEPT !.pc = "processAll"]]
            /\ DbInject(f)
    /\ UNCHANGED <<logos, nextId, blobs, producedBy, calls, Config, Rest>>

(* the callback's lookup: "already exists" if processed, create if existing == nil *)
ImportCallback(w) ==
    LET t == task[w] IN
    /\ t.pc = "callback"
    /\ \E f \in DbFaultChoices :
         LET got == GetBySymbol(logos, t.result.symbol, f)
             t1 == [t EXCEPT !.seen = Seen(got)]
         IN /\ task' = [task EXCEPT ![w] =
                  IF got.err = ErrNil /\ got.logo.status = StatusProcessed
                  THEN Return(t1, "already exists", NoBlob)
                  ELSE IF got.logo = NoRecord
                  THEN [t1 EXCEPT !.pc = "create"]
                  ELSE [t1 EXCEPT !.pc = "processAll"]]
            /\ DbInject(f)
    /\ UNCHANGED <<logos, nextId, blobs, producedBy, calls, Config, Rest>>

(* s.logoRepo.Create of the pending record *)
CreateRecord(w) ==
    LET t == task[w] IN
    /\ t.pc = "create"
    /\ \E f \in DbFaultChoices :
         LET r == RepoCreate(logos, nextId,
                             [symbol |-> t.result.symbol, source |-> t.result.source,
                              status |-> StatusPending], f)
             t1 == [t EXCEPT !.wrote = TRUE]
         IN /\ logos' = r.db
            /\ nextId' = r.id
            /\ task' = [task EXCEPT ![w] =
                  IF r.err # ErrNil THEN Return(t1, "creating record", NoBlob)
                  ELSE [t1 EXCEPT !.pc = "processAll"]]
            /\ DbInject(f)
    /\ UNCHANGED <<blobs, producedBy, calls, Config, Rest>>

(* variant: the loop returns at the first size that fails *)
ProcessAllStepStops(w) ==
    LET t == task[w]
        size == AllSizes[t.idx]
        rz == resizeToSquarePNG(t.result.image, SizePixels[size])
    IN
    /\ t.pc = "processAll"
    /\ \E f \in (IF rz.err = ErrNil THEN FaultChoices ELSE {FALSE}) :
         LET wr == FsWrite(blobs, t.result.symbol, size, rz.data, f)
             ok == rz.err = ErrNil /\ wr.err = ErrNil
             errs == IF rz.err # ErrNil THEN t.errs \o <<size, rz.err>>
                     ELSE IF wr.err # ErrNil THEN t.errs \o <<size, wr.err>>
                     ELSE t.errs
             results == t.results @@ (size :> ok)
             last == t.idx = Len(AllSizes) \/ ~ok
         IN /\ blobs' = IF rz.err = ErrNil THEN wr.fs ELSE blobs
            /\ task' = [task EXCEPT ![w] =
                  [t EXCEPT !.idx = t.idx + 1, !.results = results, !.errs = errs,
                            !.wrote = t.wrote \/ rz.err = ErrNil,
                            !.todo = IF last THEN DOMAIN results ELSE {},
                            !.pc = IF ~last THEN "processAll"
                                   ELSE IF Len(errs) > 0 THEN "markFailed"
                                   ELSE "markSizes"]]
            /\ Inject(f)
    /\ UNCHANGED <<logos, nextId, producedBy, calls, Config, Rest>>

(* variant: the error of fs.Write is dropped, the size counts as done *)
ProcessAllStepIgnoresWrite(w) ==
    LET t == task[w]
        size == AllSizes[t.idx]
        rz == resizeToSquarePNG(t.result.image, SizePixels[size])
    IN
    /\ t.pc = "processAll"
    /\ \E f \in (IF rz.err = ErrNil THEN FaultChoices ELSE {FALSE}) :
         LET wr == FsWrite(blobs, t.result.symbol, size, rz.data, f)
             ok == rz.err = ErrNil
             errs == IF rz.err # ErrNil THEN t.errs \o <<size, rz.err>> ELSE t.errs
             results == t.results @@ (size :> ok)
             last == t.idx = Len(AllSizes)
         IN /\ blobs' = IF rz.err = ErrNil THEN wr.fs ELSE blobs
            /\ task' = [task EXCEPT ![w] =
                  [t EXCEPT !.idx = t.idx + 1, !.results = results, !.errs = errs,
                            !.wrote = t.wrote \/ rz.err = ErrNil,
                            !.todo = IF last THEN DOMAIN results ELSE {},
                            !.pc = IF ~last THEN "processAll"
                                   ELSE IF Len(errs) > 0 THEN "markFailed"
                                   ELSE "markSizes"]]
            /\ Inject(f)
    /\ UNCHANGED <<logos, nextId, producedBy, calls, Config, Rest>>

(* ImageProcessor.ProcessAll: one iteration of the loop over model.AllSizes; *)
(* after the last one the caller branches on the returned error.            *)
ProcessAllStep(w) ==
    LET t == task[w]
        size == AllSizes[t.idx]
        rz == resizeToSquarePNG(t.result.image, SizePixels[size])
    IN
    /\ t.pc = "processAll"
    /\ \E f \in (IF rz.err = ErrNil THEN FaultChoices ELSE {FALSE}) :
         LET wr == FsWrite(blobs, t.result.symbol, size, rz.data, f)
             ok == rz.err = ErrNil /\ wr.err = ErrNil
             errs == IF rz.err # ErrNil THEN t.errs \o <<size, rz.err>>
                     ELSE IF wr.err # ErrNil THEN t.errs \o <<size, wr.err>>
                     ELSE t.errs
             results == t.results @@ (size :> ok)
             last == t.idx = Len(AllSizes)
         IN /\ blobs' = IF rz.err = ErrNil THEN wr.fs ELSE blobs
            /\ task' = [task EXCEPT ![w] =
                  [t EXCEPT !.idx = t.idx + 1, !.results = results, !.errs = errs,
                            !.wrote = t.wrote \/ rz.err = ErrNil,
                            !.todo = IF last THEN DOMAIN results ELSE {},
                            !.pc = IF ~last THEN "processAll"
                                   ELSE IF Len(errs) > 0 THEN "markFailed"
                                   ELSE "markSizes"]]
            /\ Inject(f)
    /\ UNCHANGED <<logos, nextId, producedBy, calls, Config, Rest>>

(* variant: a failed normalization is remembered as not_found *)
MarkFailedAsNotFound(w) ==
    LET t == task[w] IN
    /\ t.pc = "markFailed"
    /\ \E f \in DbFaultChoices :
         LET r == SetStatus(logos, t.result.symbol, StatusNotFound,
                            ProcessingError(t.errs), f)
         IN /\ logos' = r.db
            /\ task' = [task EXCEPT ![w] = Return([t EXCEPT !.wrote = TRUE], "processing", NoBlob)]
            /\ DbInject(f)
    /\ UNCHANGED <<nextId, blobs, producedBy, calls, Config, Rest>>

(* ProcessAll returned an error: SetStatus(failed, err.Error()), its own *)
(* error dropped, and the processing error goes to the caller            *)
MarkFailed(w) ==
    LET t == task[w] IN
    /\ t.pc = "markFailed"
    /\ \E f \in DbFaultChoices :
         LET r == SetStatus(logos, t.result.symbol, StatusFailed,
                            ProcessingError(t.errs), f)
         IN /\ logos' = r.db
            /\ task' = [task EXCEPT ![w] = Return([t EXCEPT !.wrote = TRUE], "processing", NoBlob)]
            /\ DbInject(f)
    /\ UNCHANGED <<nextId, blobs, producedBy, calls, Config, Rest>>

(* one iteration of "for size, ok := range sizes": map order is unspecified; *)
(* an error of SetSizeAvailable is logged and the loop goes on               *)
MarkSize(w) ==
    LET t == task[w] IN
    /\ t.pc = "markSizes"
    /\ \E size \in t.todo :
       \E f \in (IF t.results[size] THEN DbFaultChoices ELSE {FALSE}) :
         LET r == SetSizeAvailable(logos, t.result.symbol, size, f)
             todo == t.todo \ {size}
         IN /\ logos' = IF t.results[size] THEN r.db ELSE logos
            /\ task' = [task EXCEPT ![w] =
                  [t EXCEPT !.todo = todo, !.wrote = t.wrote \/ t.results[size],
                            !.pc = IF todo = {} THEN "markProcessed" ELSE "markSizes"]]
            /\ DbInject(f)
    /\ UNCHANGED <<nextId, blobs, producedBy, calls, Config, Rest>>

Succeeded(results) == {z \in DOMAIN results : results[z]}

(* return s.logoRepo.SetStatus(ctx, result.Symbol, model.StatusProcessed, "") *)
MarkProcessed(w) ==
    LET t == task[w] IN
    /\ t.pc = "markProcessed"
    /\ \E f \in DbFaultChoices :
         LET r == SetStatus(logos, t.result.symbol, StatusProcessed, << >>, f)
         IN /\ logos' = r.db
            /\ producedBy' = IF r.db # logos \/ (r.err = ErrNil /\ logos[t.result.symbol] # NoRecord)
                             THEN [producedBy EXCEPT ![t.result.symbol] = Succeeded(t.results)]
                             ELSE producedBy
            /\ task' = [task EXCEPT ![w] = Finish([t EXCEPT !.wrote = TRUE], r.err)]
            /\ DbInject(f)
    /\ UNCHANGED <<nextId, blobs, calls, Config, Rest>>

(* GetLogo: "Read the now-cached size", return s.fs.Read(symbol, size) *)
FinalRead(w) ==
    LET t == task[w]
        rd == FsRead(blobs, t.symbol, t.size)
    IN
    /\ t.pc = "finalRead"
    /\ task' = [task EXCEPT ![w] = Return(t, rd.err, rd.data)]
    /\ UNCHANGED <<logos, nextId, blobs, producedBy, calls, faults, Config, Rest>>

----------------------------------------------------------------------------
Next ==
    \E w \in Workers :
        \/ CallGetLogo(w)
        \/ CallProcessAndStore(w)
        \/ CallImportCallback(w)
        \/ FromCacheLookup(w)
        \/ FromCacheRead(w)
        \/ AcquireGitHub(w)
        \/ AcquireLLM(w)
        \/ Upsert(w)
        \/ ImportCallback(w)
        \/ CreateRecord(w)
        \/ ProcessAllStep(w)
        \/ MarkFailed(w)
        \/ MarkSize(w)
        \/ MarkProcessed(w)
        \/ FinalRead(w)

Spec == Init /\ [][Next]_vars

----------------------------------------------------------------------------
(* Properties *)

Exists(s) == logos[s] # NoRecord

Resized(image, size) == resizeToSquarePNG(image, SizePixels[size]).data

HasMessage(logo) == logo.error_message.valid /\ logo.error_message.text # << >>

C3_FlagsMonotone ==
    [][\A s \in DOMAIN logos :
        Exists(s) => /\ logos'[s] # NoRecord
                     /\ logos[s].flags \subseteq logos'[s].flags
                     /\ logos'[s].symbol = logos[s].symbol
    ]_vars

(* C3 witness: a record with all flags set was reprocessed by a run that failed *)
C3_Witness ==
    \E s \in DOMAIN logos :
        /\ Exists(s) /\ logos[s].flags = Sizes /\ logos[s].status = StatusFailed

(* C4: the status of a record changes only from pending to processed or    *)
(* from pending to failed                                                   *)
C4_StatusTransitions ==
    [][\A s \in DOMAIN logos :
        (Exists(s) /\ logos'[s] # NoRecord /\ logos'[s].status # logos[s].status)
        => /\ logos[s].status = StatusPending
           /\ logos'[s].status \in {StatusProcessed, StatusFailed}
    ]_vars

(* C5: the error message of a record is non-empty exactly when its status  *)
(* is failed                                                                *)
C5_MessageIffFailed ==
    \A s \in DOMAIN logos :
        Exists(s) => (HasMessage(logos[s]) <=> logos[s].status = StatusFailed)

(* C5 witness: a record found failed by the upsert is now processed *)
C5_Witness ==
    \E w \in Workers :
        /\ task[w].seen = StatusFailed /\ task[w].pc = "done" /\ task[w].ret.err = ErrNil
        /\ Exists(task[w].result.symbol)
        /\ logos[task[w].result.symbol].status = StatusProcessed

ErrNoProvider == "no provider found a logo"

(* C6: a GetLogo that misses the cache calls the mirror first; it calls the *)
(* LLM provider only after the mirror has missed and only if one is         *)
(* configured; when every layer it consulted has missed it fails with the   *)
(* no-provider error, having normalized nothing and written nothing.        *)
C6_AcquireOrder ==
    \A w \in Workers :
        LET t == task[w] IN
        t.op = "GetLogo" =>
        /\ t.trace \in {<< >>, <<"github">>, <<"github", "llm">>}
        /\ t.pc \in {"fromCache", "cacheRead", "acquire"} => t.trace = << >>
        /\ t.pc = "acquireLLM" => t.trace = <<"github">>
        /\ t.trace = <<"github", "llm">> =>
              /\ llmProvider # << >>
              /\ t.result # NoResult => t.result.source[1] = "llm"
        /\ (t.result # NoResult /\ t.result.source[1] = "github") => t.trace = <<"github">>
        /\ (t.trace # << >> /\ t.result = NoResult /\ t.pc # "acquireLLM") =>
              /\ t.pc = "done"
              /\ t.ret.err = ErrNoProvider
              /\ t.trace = (IF llmProvider = << >> THEN <<"github">>
                            ELSE <<"github", "llm">>)
              /\ ~t.wrote /\ t.results = << >> /\ t.seen = "none"
        /\ t.ret.err = ErrNoProvider => t.result = NoResult

(* C6 witness: the mirror and the LLM provider both missed *)
C6_Witness ==
    \E w \in Workers :
        /\ task[w].op = "GetLogo" /\ task[w].pc = "done"
        /\ task[w].ret.err = ErrNoProvider
        /\ task[w].trace = <<"github", "llm">>

(* C7: a processed record has the flag of every size that the normalization *)
(* run which set it processed reported as succeeded                         *)
C7_ProcessedHasFlags ==
    \A s \in DOMAIN logos :
        (Exists(s) /\ logos[s].status = StatusProcessed)
        => producedBy[s] \subseteq logos[s].flags

C9_FailedStillServed ==
    \A w \in Workers :
        LET t == task[w] IN
        ( /\ t.op = "GetLogo" /\ t.pc = "done"
          /\ t.cache.seen = StatusFailed
          /\ t.cache.blob # NoBlob )
        => /\ t.ret.err = ErrNil
           /\ t.ret.data = t.cache.blob

Resizable(image) == \A z \in Sizes : ~BimgFails(image, SizePixels[z])

----------------------------------------------------------------------------
(* storage: FileSystem.Write against a concurrent FileSystem.Read of the    *)
(* same path.  os.WriteFile is open(O_WRONLY|O_CREATE|O_TRUNC), write until *)
(* all bytes are out, close; os.ReadFile is open, read until EOF, close.    *)

MaxLen == 2
MaxReads == 2

Bytes == {0, 1}

(* the non-empty byte sequences a blob can be *)
Contents == UNION {[1..n -> Bytes] : n \in 1..MaxLen}

(* what a Read of the file f returns when nothing else touches f *)
WholeRead(f) ==
    IF f.exists THEN [err |-> ErrNil, data |-> f.data]
    ELSE [err |-> "logo file not found", data |-> << >>]

Writing == writer.pc \in {"open", "write", "close"}

FsInit ==
    /\ CoreIdle /\ NoProviders /\ LlmIdle /\ AgentIdle /\ HttpIdle /\ ImportIdle
    /\ \E old \in {NoFile} \cup {File(d) : d \in Contents} :
         /\ disk = old
         /\ writer = [IdleWriter EXCEPT !.prev = old]
    /\ reader = IdleReader

(* FileSystem.Write(symbol, size, data) is called *)
FsWriteCall ==
    /\ writer.pc = "idle"
    /\ \E data \in Contents :
         writer' = [writer EXCEPT !.pc = "open", !.data = data]
    /\ reader' = IF reader.pc \in {"open", "read"}
                 THEN [reader EXCEPT !.overlap = TRUE] ELSE reader
    /\ UNCHANGED <<disk, FsOthers>>

(* os.WriteFile: OpenFile creates the file or truncates it *)
FsWriteOpen ==
    /\ writer.pc = "open"
    /\ disk' = File(<< >>)
    /\ writer' = [writer EXCEPT !.pc = "write"]
    /\ UNCHANGED <<reader, FsOthers>>

(* os.WriteFile: f.Write(data); a write(2) puts out some of the bytes left, *)
(* and a reader of the file is not held back while the rest follows         *)
FsWriteChunk ==
    /\ writer.pc = "write"
    /\ \E n \in 1..(Len(writer.data) - writer.off) :
         /\ disk' = File(disk.data \o SubSeq(writer.data, writer.off + 1, writer.off + n))
         /\ writer' = [writer EXCEPT !.off = writer.off + n,
                                     !.pc = IF writer.off + n = Len(writer.data)
                                            THEN "close" ELSE "write"]
    /\ UNCHANGED <<reader, FsOthers>>

(* os.WriteFile: f.Close(), and Write returns nil *)
FsWriteClose ==
    /\ writer.pc = "close"
    /\ writer' = [writer EXCEPT !.pc = "done"]
    /\ UNCHANGED <<disk, reader, FsOthers>>

(* FileSystem.Read(symbol, size) is called *)
FsReadCall ==
    /\ reader.pc \in {"idle", "done"}
    /\ reader.n < MaxReads
    /\ reader' = [IdleReader EXCEPT !.pc = "open", !.n = reader.n + 1,
                                    !.overlap = Writing]
    /\ UNCHANGED <<disk, writer, FsOthers>>

(* os.ReadFile: Open; os.IsNotExist gives "logo file not found" *)
FsReadOpen ==
    /\ reader.pc = "open"
    /\ reader' = IF disk.exists THEN [reader EXCEPT !.pc = "read"]
                 ELSE [reader EXCEPT !.pc = "done", !.ret = WholeRead(NoFile)]
    /\ UNCHANGED <<disk, writer, FsOthers>>

(* os.ReadFile: one f.Read at the reader's offset; 0 bytes is EOF and the  *)
(* bytes read so far are returned                                          *)
FsReadChunk ==
    /\ reader.pc = "read"
    /\ LET off == Len(reader.buf) IN
       IF off >= Len(disk.data)
       THEN reader' = [reader EXCEPT !.pc = "done",
                                     !.ret = [err |-> ErrNil, data |-> reader.buf]]
       ELSE \E n \in 1..(Len(disk.data) - off) :
              reader' = [reader EXCEPT !.buf = reader.buf \o SubSeq(disk.data, off + 1, off + n)]
    /\ UNCHANGED <<disk, writer, FsOthers>>

FsNext ==
    \/ FsWriteCall
    \/ FsWriteOpen
    \/ FsWriteChunk
    \/ FsWriteClose
    \/ FsReadCall
    \/ FsReadOpen
    \/ FsReadChunk

SpecFs == FsInit /\ [][FsNext]_vars

(* C11: a Read that runs concurrently with a Write of the same path returns *)
(* the complete previous bytes (not found if there were none) or the        *)
(* complete new bytes, never an empty or partially written blob             *)
C11_ReadIsAtomic ==
    (reader.pc = "done" /\ reader.overlap)
    => reader.ret \in {WholeRead(writer.prev), WholeRead(File(writer.data))}

----------------------------------------------------------------------------
(* provider: LLMProvider.GetLogo, called by concurrent goroutines that      *)
(* share the provider's limiter and the table llm_calls.  Time is counted   *)
(* in limiter intervals (time.Minute / ratePerMinute).                      *)

MaxTime == 2

(* p.clients, as buildLLMProvider makes them from llm.provider_order *)
ClientLists == {<< >>, <<"anthropic">>, <<"anthropic", "openai">>, <<"openai", "anthropic">>}

(* what a backend does in a run: FindLogoURL fails, or it returns a URL *)
(* whose download fails, or one whose download succeeds                 *)
Answers == {"ok", "find fails", "download fails"}

ProviderName(client) == client

ModelName(client) == IF client = "anthropic" THEN "claude" ELSE "gpt"

Max(a, b) == IF a >= b THEN a ELSE b

(* variant: the limiter admits every Wait at once *)
ReserveNoPacing(lim, t) == [at |-> t, next |-> lim]

(* rate.Limiter with burst 1: a reservation made at time t acts when the  *)
(* bucket holds its token, and the next token is one interval later       *)
Reserve(lim, t) ==
    LET at == Max(lim, t) IN [at |-> at, next |-> at + 1]

(* Reservation.Cancel at time t: the token goes back unless the time to  *)
(* act has passed or a later reservation was made                        *)
CancelReservation(lim, at, t) ==
    IF at < t THEN lim
    ELSE IF lim = at + 1 THEN at
    ELSE lim

ErrCanceled == <<"context canceled">>

RateLimitWait(err) == <<"rate limit wait">> \o err

AllFailed(err) == <<"all LLM providers failed">> \o err

(* sqliteLLMCallRepository.Create *)
LlmCallCreate(table, call, fail) ==
    IF fail THEN [err |-> <<"creating llm call record">>, rows |-> table]
    ELSE [err |-> << >>, rows |-> Append(table, [call EXCEPT !.id = Len(table) + 1])]

(* variant: tryProvider gives up when the audit row cannot be written *)
TryProviderErrAudit(findErr, auditErr) ==
    IF auditErr # << >> THEN auditErr ELSE findErr

(* tryProvider after recordCall: the error of the audit write is logged, *)
(* and the error of FindLogoURL alone decides how it goes on             *)
TryProviderErr(findErr, auditErr) == findErr

(* variant: the loop keeps the error of the first backend that failed *)
NextBackendKeepsFirst(t, clients, err) ==
    LET t1 == [t EXCEPT !.lastErr = IF t.lastErr = << >> THEN err ELSE t.lastErr] IN
    IF t.i < Len(clients)
    THEN [t1 EXCEPT !.i = t.i + 1, !.pc = "wait"]
    ELSE [t1 EXCEPT !.pc = "done", !.ret = [NoLlmRet EXCEPT !.err = AllFailed(t1.lastErr)]]

(* GetLogo after a failed tryProvider: lastErr = err, then the next  *)
(* client, or "all LLM providers failed ...: lastErr" after the last *)
NextBackend(t, clients, err) ==
    LET t1 == [t EXCEPT !.lastErr = err] IN
    IF t.i < Len(clients)
    THEN [t1 EXCEPT !.i = t.i + 1, !.pc = "wait"]
    ELSE [t1 EXCEPT !.pc = "done", !.ret = [NoLlmRet EXCEPT !.err = AllFailed(t1.lastErr)]]

LlmInit ==
    /\ CoreIdle /\ FsIdle /\ AgentIdle /\ HttpIdle /\ ImportIdle
    /\ repos = << >>
    /\ llmProvider \in ClientLists
    /\ limiter = 0 /\ now = 0 /\ llmCalls = << >>
    /\ backends \in [LlmClients -> Answers]
    /\ \A c \in LlmClients \ Range(llmProvider) : backends[c] = "ok"
    /\ req = [w \in Workers |-> IdleReq]

(* LogoService.acquire calls s.llmProvider.GetLogo(ctx, symbol) *)
LlmGetLogo(w) ==
    /\ req[w].pc = "idle"
    /\ \E symbol \in Symbols :
         req' = [req EXCEPT ![w] =
            IF Len(llmProvider) = 0
            THEN [IdleReq EXCEPT !.pc = "done", !.symbol = symbol,
                                 !.ret = [NoLlmRet EXCEPT !.err = <<"no LLM providers configured">>]]
            ELSE [IdleReq EXCEPT !.pc = "wait", !.symbol = symbol, !.i = 1]]
    /\ UNCHANGED <<limiter, now, llmCalls, backends, LlmOthers>>

(* the caller's context is cancelled; a goroutine parked in limiter.Wait *)
(* wakes up with ctx.Err() and its reservation is cancelled              *)
LlmCancel(w) ==
    LET t == req[w] IN
    /\ t.pc \in {"wait", "waiting", "find", "record", "download"}
    /\ t.ctx = "live"
    /\ IF t.pc = "waiting"
       THEN /\ req' = [req EXCEPT ![w] =
                  [t EXCEPT !.pc = "done", !.ctx = "cancelled", !.cancelledInWait = TRUE,
                            !.ret = [NoLlmRet EXCEPT !.err = RateLimitWait(ErrCanceled)]]]
            /\ limiter' = CancelReservation(limiter, t.at, now)
       ELSE /\ req' = [req EXCEPT ![w] = [t EXCEPT !.ctx = "cancelled"]]
            /\ limiter' = limiter
    /\ UNCHANGED <<now, llmCalls, backends, LlmOthers>>

(* p.limiter.Wait(ctx): a cancelled context fails at once; otherwise the *)
(* call takes a reservation and goes on, or parks until its time to act  *)
LimiterWait(w) ==
    LET t == req[w]
        r == Reserve(limiter, now)
    IN
    /\ t.pc = "wait"
    /\ IF t.ctx = "cancelled"
       THEN /\ req' = [req EXCEPT ![w] =
                  [t EXCEPT !.pc = "done",
                            !.ret = [NoLlmRet EXCEPT !.err = RateLimitWait(ErrCanceled)]]]
            /\ limiter' = limiter
       ELSE /\ limiter' = r.next
            /\ req' = [req EXCEPT ![w] =
                  IF r.at <= now
                  THEN [t EXCEPT !.pc = "find", !.at = r.at,
                                 !.grants = Append(t.grants,
                                     [at |-> r.at, reserved |-> now, waited |-> FALSE])]
                  ELSE [t EXCEPT !.pc = "waiting", !.at = r.at, !.reserved = now]]
    /\ UNCHANGED <<now, llmCalls, backends, LlmOthers>>

(* the timer of limiter.Wait fires: Wait returns nil *)
LimiterAdmit(w) ==
    LET t == req[w] IN
    /\ t.pc = "waiting"
    /\ now >= t.at
    /\ req' = [req EXCEPT ![w] =
          [t EXCEPT !.pc = "find", !.waited = TRUE,
                    !.grants = Append(t.grants,
                        [at |-> t.at, reserved |-> t.reserved, waited |-> TRUE])]]
    /\ UNCHANGED <<limiter, now, llmCalls, backends, LlmOthers>>

(* tryProvider: client.FindLogoURL(ctx, symbol, "") *)
FindLogoURL(w) ==
    LET t == req[w]
        client == llmProvider[t.i]
    IN
    /\ t.pc = "find"
    /\ req' = [req EXCEPT ![w] =
          [t EXCEPT !.pc = "record",
                    !.invoked = Append(t.invoked, client),
                    !.findErr = IF t.ctx = "cancelled" THEN ErrCanceled
                                ELSE IF backends[client] = "find fails" THEN <<"find", client>>
                                ELSE << >>]]
    /\ UNCHANGED <<limiter, now, llmCalls, backends, LlmOthers>>

(* tryProvider: p.recordCall(...), then "if err != nil return nil, err" *)
RecordCall(w) ==
    LET t == req[w]
        client == llmProvider[t.i]
    IN
    /\ t.pc = "record"
    /\ \E fail \in (IF t.ctx = "cancelled" THEN {TRUE} ELSE BOOLEAN) :
         LET rc == LlmCallCreate(llmCalls,
                       [id |-> 0, symbol |-> t.symbol, provider |-> ProviderName(client),
                        model |-> ModelName(client), success |-> t.findErr = << >>,
                        by |-> <<w, t.i>>], fail)
             err == TryProviderErr(t.findErr, rc.err)
             t1 == [t EXCEPT !.audited = Append(t.audited, ~fail)]
         IN /\ llmCalls' = rc.rows
            /\ req' = [req EXCEPT ![w] =
                  IF err # << >>
                  THEN NextBackend([t1 EXCEPT !.attempts =
                                       Append(t.attempts, [client |-> client, err |-> err])],
                                   llmProvider, err)
                  ELSE [t1 EXCEPT !.pc = "download"]]
    /\ UNCHANGED <<limiter, now, backends, LlmOthers>>

(* tryProvider: p.downloadImage(ctx, searchResult.LogoURL) and the result *)
DownloadImage(w) ==
    LET t == req[w]
        client == llmProvider[t.i]
        err == IF t.ctx = "cancelled" THEN <<"downloading logo">> \o ErrCanceled
               ELSE IF backends[client] = "download fails" THEN <<"downloading logo", client>>
               ELSE << >>
        t1 == [t EXCEPT !.attempts = Append(t.attempts, [client |-> client, err |-> err])]
    IN
    /\ t.pc = "download"
    /\ req' = [req EXCEPT ![w] =
          IF err = << >>
          THEN [t1 EXCEPT !.pc = "done",
                          !.ret = [err |-> << >>, symbol |-> t.symbol,
                                   source |-> <<"llm", ProviderName(client)>>]]
          ELSE NextBackend(t1, llmProvider, err)]
    /\ UNCHANGED <<limiter, now, llmCalls, backends, LlmOthers>>

(* one limiter interval passes *)
Tick ==
    /\ now < MaxTime
    /\ now' = now + 1
    /\ UNCHANGED <<limiter, llmCalls, backends, req, LlmOthers>>

LlmNext ==
    \/ Tick
    \/ \E w \in Workers :
        \/ LlmGetLogo(w)
        \/ LlmCancel(w)
        \/ LimiterWait(w)
        \/ LimiterAdmit(w)
        \/ FindLogoURL(w)
        \/ RecordCall(w)
        \/ DownloadImage(w)

SpecLlm == LlmInit /\ [][LlmNext]_vars

(* C12: GetLogo invokes the backends in the configured order, each after a  *)
(* grant of the limiter of its own; it goes on to the next backend only     *)
(* after a failure; a success is the result of the first backend that       *)
(* succeeds, with source llm:<its provider name>, and ends the call; when   *)
(* every backend has failed the error wraps the error of the last one.  A   *)
(* call ends without either only when its context is cancelled at a wait.   *)
C12_BackendsInOrder ==
    \A w \in Workers :
        LET t == req[w]
            n == Len(t.invoked)
        IN
        /\ n <= Len(llmProvider)
        /\ t.invoked = SubSeq(llmProvider, 1, n)
        /\ Len(t.grants) = (IF t.pc = "find" THEN n + 1 ELSE n)
        /\ \A k \in 1..(Len(t.attempts) - 1) : t.attempts[k].err # << >>
        /\ (t.pc = "done" /\ t.ret.err = << >>) =>
              /\ n >= 1 /\ Len(t.attempts) = n
              /\ t.attempts[n].err = << >>
              /\ backends[llmProvider[n]] = "ok"
              /\ \A k \in 1..(n - 1) : backends[llmProvider[k]] # "ok"
              /\ t.ret.source = <<"llm", ProviderName(llmProvider[n])>>
              /\ t.ret.symbol = t.symbol
        /\ (t.pc = "done" /\ t.ret.err \notin {<< >>, RateLimitWait(ErrCanceled)} /\ n >= 1) =>
              /\ n = Len(llmProvider) /\ Len(t.attempts) = n
              /\ t.attempts[n].err # << >>
              /\ t.ret.err = AllFailed(t.attempts[n].err)
        /\ (t.pc = "done" /\ t.ret.err = RateLimitWait(ErrCanceled)) =>
              t.ctx = "cancelled" /\ n = t.i - 1

(* C12 witness: the first backend failed and the second one succeeded *)
C12_Witness ==
    \E w \in Workers :
        /\ req[w].pc = "done" /\ req[w].ret.err = << >>
        /\ Len(req[w].invoked) = 2
        /\ req[w].attempts[1].err # << >>

Grants == {<<w, k>> : w \in Workers, k \in 1..MaxTime + 4}

GrantOf(g) == req[g[1]].grants[g[2]]

Granted(g) == g[2] <= Len(req[g[1]].grants)

(* C13: all calls share one limiter of burst 1: no two backend invocations *)
(* are admitted for the same interval and none before its time, so the     *)
(* second of two concurrent lookups is admitted only after a wait; a call  *)
(* whose context is cancelled during that wait returns the cancellation    *)
(* error and never invokes the backend it was waiting for.                 *)
C13_SharedLimiter ==
    /\ \A g \in Grants : \A h \in Grants \ {g} :
          (Granted(g) /\ Granted(h)) => GrantOf(g).at # GrantOf(h).at
    /\ \A g \in Grants :
          Granted(g) => /\ GrantOf(g).waited <=> (GrantOf(g).at > GrantOf(g).reserved)
                        /\ GrantOf(g).at >= GrantOf(g).reserved
    /\ \A w \in Workers :
          LET t == req[w] IN
          /\ t.pc \in {"find", "record", "download"} => now >= t.at
          /\ Len(t.invoked) >= 1 => now >= t.grants[Len(t.invoked)].at
          /\ t.cancelledInWait =>
                /\ t.pc = "done"
                /\ t.ret.err = RateLimitWait(ErrCanceled)
                /\ Len(t.invoked) = t.i - 1

(* C13 witness: of two concurrent lookups one was admitted after a wait and *)
(* the other was cancelled during its wait                                  *)
C13_Witness ==
    \E w \in Workers : \E v \in Workers \ {w} :
        /\ req[w].cancelledInWait
        /\ req[v].waited /\ Len(req[v].invoked) >= 1
        /\ req[v].grants[Len(req[v].invoked)].waited

(* C16: a failed backend attempt whose audit write went through has left   *)
(* exactly one row, of its provider and model, with success = false        *)
C16_FailedAttemptAudited ==
    \A w \in Workers :
        \A k \in 1..Len(req[w].attempts) :
            LET a == req[w].attempts[k]
                rows == {j \in 1..Len(llmCalls) : llmCalls[j].by = <<w, k>>}
            IN (a.err # << >> /\ req[w].audited[k])
               => /\ Cardinality(rows) = 1
                  /\ \A j \in rows : /\ ~llmCalls[j].success
                                     /\ llmCalls[j].provider = ProviderName(a.client)
                                     /\ llmCalls[j].model = ModelName(a.client)

RECURSIVE FirstOk(_, _, _)
FirstOk(clients, i, answers) ==
    IF i > Len(clients) THEN 0
    ELSE IF answers[clients[i]] = "ok" THEN i
    ELSE FirstOk(clients, i + 1, answers)

ErrOf(client, answer) ==
    IF answer = "find fails" THEN <<"find", client>> ELSE <<"downloading logo", client>>

(* C17: what GetLogo returns and which backends it invokes is a function   *)
(* of the backends' answers alone, whether the audit writes succeed or fail *)
C17_AuditNeverDecides ==
    \A w \in Workers :
        LET t == req[w]
            n == Len(llmProvider)
            f == FirstOk(llmProvider, 1, backends)
        IN (t.pc = "done" /\ t.ctx = "live" /\ n > 0) =>
           IF f # 0
           THEN /\ t.invoked = SubSeq(llmProvider, 1, f)
                /\ t.ret = [err |-> << >>, symbol |-> t.symbol,
                            source |-> <<"llm", llmProvider[f]>>]
           ELSE /\ t.invoked = llmProvider
                /\ t.ret = [NoLlmRet EXCEPT !.err =
                               AllFailed(ErrOf(llmProvider[n], backends[llmProvider[n]]))]

(* C17 witness: a call got its result although an audit write failed, and  *)
(* a call whose audit writes all succeeded got the same                     *)
C17_Witness ==
    \E w \in Workers : \E v \in Workers \ {w} :
        /\ req[w].pc = "done" /\ req[w].ctx = "live" /\ req[w].ret.err = << >>
        /\ \E k \in 1..Len(req[w].audited) : ~req[w].audited[k]
        /\ req[v].pc = "done" /\ req[v].ctx = "live"
        /\ \A k \in 1..Len(req[v].audited) : req[v].audited[k]
        /\ req[v].ret = req[w].ret

----------------------------------------------------------------------------
(* Client.FindLogoURL: the tool-calling loop of the two backends            *)
(* (AnthropicClient.FindLogoURL, OpenAIClient.FindLogoURL)                  *)

(* for i := 0; i < 5; i++ *)
MaxTurns == 5

(* the arguments of a submit_logo_url call: a JSON object with the fields *)
(* of submitLogoResult, or text that does not unmarshal into it           *)
SubmitArgs ==
    { [ok |-> TRUE, LogoURL |-> "https://logo", CompanyName |-> "Apple"],
      [ok |-> TRUE, LogoURL |-> "", CompanyName |-> "Apple"],
      [ok |-> FALSE] }

WebSearch == [name |-> "web_search"]

Submit(args) == [name |-> "submit_logo_url", args |-> args]

(* the tool calls of one response, in the order of its content blocks *)
ToolLists ==
    {<< >>, <<WebSearch>>}
    \cup {<<Submit(a)>> : a \in SubmitArgs}
    \cup {<<WebSearch, Submit(a)>> : a \in SubmitArgs}
    \cup {<<Submit(a), WebSearch>> : a \in SubmitArgs}
    \cup {<<Submit([ok |-> TRUE, LogoURL |-> "", CompanyName |-> "Apple"]),
            Submit([ok |-> TRUE, LogoURL |-> "https://logo", CompanyName |-> "Apple"])>>}

(* message.StopReason of Anthropic, choice.FinishReason of OpenAI *)
StopReasons(client) ==
    IF client = "anthropic" THEN {"end_turn", "tool_use", "max_tokens"}
    ELSE {"stop", "tool_calls", "length"}

(* what one request can come back with: an error of the API call, a reply *)
(* without choices (OpenAI), or a message                                 *)
Responses(client) ==
    {[kind |-> "error"]}
    \cup (IF client = "openai" THEN {[kind |-> "no choices"]} ELSE {})
    \cup {[kind |-> "message", tools |-> tl, stop |-> sr] :
            tl \in ToolLists, sr \in StopReasons(client)}

(* the first submit_logo_url call of a response, 0 when it has none *)
FirstSubmitLast(tools) ==
    IF \E k \in 1..Len(tools) : tools[k].name = "submit_logo_url"
    THEN CHOOSE k \in 1..Len(tools) :
            /\ tools[k].name = "submit_logo_url"
            /\ \A j \in (k + 1)..Len(tools) : tools[j].name # "submit_logo_url"
    ELSE 0

FirstSubmit(tools) ==
    IF \E k \in 1..Len(tools) : tools[k].name = "submit_logo_url"
    THEN CHOOSE k \in 1..Len(tools) :
            /\ tools[k].name = "submit_logo_url"
            /\ \A j \in 1..(k - 1) : tools[j].name # "submit_logo_url"
    ELSE 0

Returned(err, result) == [done |-> TRUE, err |-> err, result |-> result]

NextTurn == [done |-> FALSE, err |-> "nil", result |-> NoSearchResult]

(* the body of "if toolUse.Name == submit_logo_url" of both loops *)
SubmitOutcome(args) ==
    IF ~args.ok THEN Returned("parsing tool arguments", NoSearchResult)
    ELSE IF args.LogoURL = "" THEN Returned("did not find a logo URL", NoSearchResult)
    ELSE Returned("nil", [LogoURL |-> args.LogoURL, CompanyName |-> args.CompanyName])

(* the model finished its turn: StopReason "end_turn", FinishReason "stop" *)
TurnEnded(client, resp) ==
    resp.stop = (IF client = "anthropic" THEN "end_turn" ELSE "stop")

(* one pass of the Anthropic loop body *)
AnthropicTurn(resp) ==
    IF resp.kind = "error" THEN Returned("API call", NoSearchResult)
    ELSE IF FirstSubmit(resp.tools) # 0
         THEN SubmitOutcome(resp.tools[FirstSubmit(resp.tools)].args)
    ELSE IF TurnEnded("anthropic", resp)
         THEN Returned("ended without finding a logo", NoSearchResult)
    ELSE NextTurn

(* one pass of the OpenAI loop body *)
OpenAITurn(resp) ==
    IF resp.kind = "error" THEN Returned("API call", NoSearchResult)
    ELSE IF resp.kind = "no choices" THEN Returned("returned no choices", NoSearchResult)
    ELSE IF Len(resp.tools) > 0
         THEN IF FirstSubmit(resp.tools) # 0
              THEN SubmitOutcome(resp.tools[FirstSubmit(resp.tools)].args)
              ELSE NextTurn
    ELSE IF TurnEnded("openai", resp)
         THEN Returned("ended without finding a logo", NoSearchResult)
    ELSE NextTurn

Turn(client, resp) ==
    IF client = "anthropic" THEN AnthropicTurn(resp) ELSE OpenAITurn(resp)

AgentInit ==
    /\ CoreIdle /\ NoProviders /\ FsIdle /\ LlmIdle /\ ImportIdle /\ HttpIdle
    /\ agent = IdleAgent

(* FindLogoURL is called on one of the two clients *)
AgentCall ==
    /\ agent.pc = "idle"
    /\ \E client \in LlmClients :
         agent' = [IdleAgent EXCEPT !.pc = "loop", !.client = client]
    /\ UNCHANGED AgentOthers

(* i < 5: Messages.New / CreateChatCompletion sends the conversation *)
AgentRequest ==
    /\ agent.pc = "loop"
    /\ agent.i < MaxTurns
    /\ agent' = [agent EXCEPT !.pc = "await", !.sent = agent.sent + 1]
    /\ UNCHANGED AgentOthers

(* the reply arrives and the rest of the loop body runs *)
AgentResponse ==
    /\ agent.pc = "await"
    /\ \E resp \in Responses(agent.client) :
         LET out == Turn(agent.client, resp)
             a1 == [agent EXCEPT !.history = Append(agent.history, resp)]
         IN agent' = IF out.done
                     THEN [a1 EXCEPT !.pc = "done",
                                     !.ret = [err |-> out.err, result |-> out.result]]
                     ELSE [a1 EXCEPT !.pc = "loop", !.i = agent.i + 1]
    /\ UNCHANGED AgentOthers

(* the loop ran out: "exceeded max turns without finding logo" *)
AgentExceeded ==
    /\ agent.pc = "loop"
    /\ agent.i >= MaxTurns
    /\ agent' = [agent EXCEPT !.pc = "done",
                    !.ret = [err |-> "exceeded max turns without finding logo",
                             result |-> NoSearchResult]]
    /\ UNCHANGED AgentOthers

AgentNext == AgentCall \/ AgentRequest \/ AgentResponse \/ AgentExceeded

SpecAgent == AgentInit /\ [][AgentNext]_vars

(* the responses of a call that carry tool calls but no submit_logo_url *)
OnlyOtherTools(resp) ==
    /\ resp.kind = "message"
    /\ Len(resp.tools) > 0
    /\ \A j \in 1..Len(resp.tools) : resp.tools[j].name # "submit_logo_url"

HasSubmit(resp) ==
    /\ resp.kind = "message"
    /\ \E j \in 1..Len(resp.tools) : resp.tools[j].name = "submit_logo_url"

(* the model ended its turn and the response has no tool call *)
EndedWithoutTool(client, resp) ==
    /\ resp.kind = "message"
    /\ Len(resp.tools) = 0
    /\ resp.stop = (IF client = "anthropic" THEN "end_turn" ELSE "stop")

(* C14: a FindLogoURL call sends at most 5 requests; a call that got 5     *)
(* responses which all carry only non-submit tool calls fails with         *)
(* "exceeded max turns"; a response in which the model ended its turn      *)
(* without a tool call fails the call at once with "ended without finding  *)
(* a logo" and no further request is sent                                  *)
C14_LoopBounded ==
    LET h == agent.history IN
    /\ agent.sent <= MaxTurns
    /\ agent.sent = (IF agent.pc = "await" THEN Len(h) + 1 ELSE Len(h))
    /\ (agent.pc = "done" /\ Len(h) = MaxTurns /\ \A k \in 1..Len(h) : OnlyOtherTools(h[k]))
         => agent.ret.err = "exceeded max turns without finding logo"
    /\ \A k \in 1..Len(h) :
           EndedWithoutTool(agent.client, h[k]) =>
               /\ k = Len(h)
               /\ agent.pc = "done"
               /\ agent.sent = k
               /\ agent.ret.err = "ended without finding a logo"

(* C15: the first response that contains a submit_logo_url call ends the   *)
(* loop with no further request: the submitted fields are the result when  *)
(* logo_url is not empty, the call fails with "did not find a logo URL"    *)
(* when it is empty (and with a parse error when the arguments do not      *)
(* unmarshal)                                                              *)
C15_SubmitEndsLoop ==
    LET h == agent.history IN
    \A k \in 1..Len(h) :
        HasSubmit(h[k]) =>
            LET tools == h[k].tools
                first == CHOOSE j \in 1..Len(tools) :
                            /\ tools[j].name = "submit_logo_url"
                            /\ \A m \in 1..(j - 1) : tools[m].name # "submit_logo_url"
                args == tools[first].args
            IN
            /\ k = Len(h)
            /\ agent.pc = "done"
            /\ agent.sent = k
            /\ (args.ok /\ args.LogoURL # "") =>
                   agent.ret = [err |-> "nil",
                                result |-> [LogoURL |-> args.LogoURL,
                                            CompanyName |-> args.CompanyName]]
            /\ (args.ok /\ args.LogoURL = "") =>
                   agent.ret = [err |-> "did not find a logo URL", result |-> NoSearchResult]
            /\ ~args.ok =>
                   agent.ret = [err |-> "parsing tool arguments", result |-> NoSearchResult]

(* C15 witness: after a turn of web searches the second response submits *)
(* an empty logo_url before a full one, and the call failed              *)
C15_Witness ==
    /\ agent.pc = "done"
    /\ Len(agent.history) = 2
    /\ HasSubmit(agent.history[2])
    /\ Len(agent.history[2].tools) = 2
    /\ agent.history[2].tools[2].name = "submit_logo_url"
    /\ agent.ret.err = "did not find a logo URL"

----------------------------------------------------------------------------
(* GitHubProvider.GetLogo, one download at a time *)

MaxRepos == 3

RepoNames == {"davidepalazzo/ticker-logos", "nvstly/icons", "acme/logos"}

(* cfg.GitHub.Repos: any list of distinct repositories, the empty one included *)
RepoLists ==
    UNION {{rs \in [1..n -> RepoNames] : \A i, j \in 1..n : rs[i] = rs[j] => i = j}
            : n \in 0..MaxRepos}

NoGetRet == [err |-> "running", symbol |-> "none", image |-> NoImage, source |-> << >>]

IdleGet == [pc |-> "idle", symbol |-> "none", i |-> 1, contacted |-> << >>, ret |-> NoGetRet]

(* the loop body after g.downloadFile(ctx, rawURL) of repository rs[c.i]: *)
(* an error continues with the next repository, a success returns         *)
AfterDownloadLastWins(c, rs, ok, data) ==
    LET c1 == [c EXCEPT !.contacted = Append(c.contacted, [repo |-> rs[c.i], ok |-> ok]),
                        !.i = c.i + 1]
    IN IF ok
       THEN [c1 EXCEPT !.ret = [err |-> ErrNil, symbol |-> c.symbol, image |-> data,
                                source |-> <<"github", rs[c.i]>>]]
       ELSE c1

AfterDownload(c, rs, ok, data) ==
    LET c1 == [c EXCEPT !.contacted = Append(c.contacted, [repo |-> rs[c.i], ok |-> ok])]
    IN IF ok
       THEN [c1 EXCEPT !.pc = "done",
                       !.ret = [err |-> ErrNil, symbol |-> c.symbol, image |-> data,
                                source |-> <<"github", rs[c.i]>>]]
       ELSE [c1 EXCEPT !.i = c.i + 1]

GhInit ==
    /\ CoreIdle /\ NoProviders /\ FsIdle /\ LlmIdle /\ AgentIdle /\ HttpIdle
    /\ imp = IdleImport
    /\ \E rs \in RepoLists : github = [repos |-> rs, get |-> IdleGet]

(* symbol = strings.ToUpper(symbol) *)
GhGetLogo ==
    /\ github.get.pc = "idle"
    /\ \E symbol \in {"aapl", "AAPL"} :
         github' = [github EXCEPT !.get = [IdleGet EXCEPT !.pc = "loop",
                                                          !.symbol = ToUpper(symbol)]]
    /\ UNCHANGED <<imp, ImportOthers>>

(* for _, repo := range g.repos: download ticker_icons/SYMBOL.png *)
GhDownload ==
    /\ github.get.pc = "loop"
    /\ github.get.i <= Len(github.repos)
    /\ \E ok \in BOOLEAN : \E data \in Images :
         github' = [github EXCEPT !.get = AfterDownload(github.get, github.repos, ok, data)]
    /\ UNCHANGED <<imp, ImportOthers>>

(* after the loop: "logo for %s not found in any GitHub repo" *)
GhNotFound ==
    /\ github.get.pc = "loop"
    /\ github.get.i > Len(github.repos)
    /\ github' = [github EXCEPT !.get.pc = "done",
                     !.get.ret = [NoGetRet EXCEPT !.err = "not found in any GitHub repo",
                                                  !.symbol = github.get.symbol]]
    /\ UNCHANGED <<imp, ImportOthers>>

GhNext == GhGetLogo \/ GhDownload \/ GhNotFound

SpecGitHub == GhInit /\ [][GhNext]_vars

(* C18: GetLogo contacts the repositories in list order; it returns the    *)
(* download of the first repository that succeeds, with source             *)
(* github:<that repo>, and contacts no later one; when every repository    *)
(* misses, and when none is configured, it returns the not-found error     *)
C18_FirstRepoWins ==
    LET c == github.get
        rs == github.repos
        n == Len(c.contacted)
    IN /\ n <= Len(rs)
       /\ \A k \in 1..n : c.contacted[k].repo = rs[k]
       /\ \A k \in 1..(n - 1) : ~c.contacted[k].ok
       /\ c.pc = "done" =>
            IF n > 0 /\ c.contacted[n].ok
            THEN /\ c.ret.err = ErrNil
                 /\ c.ret.source = <<"github", rs[n]>>
                 /\ c.ret.symbol = "AAPL"
            ELSE /\ n = Len(rs)
                 /\ c.ret = [NoGetRet EXCEPT !.err = "not found in any GitHub repo",
                                             !.symbol = "AAPL"]

(* C18 witness: the first repository missed, the second had the logo *)
C18_Witness ==
    /\ github.get.pc = "done"
    /\ Len(github.repos) >= 2
    /\ Len(github.get.contacted) = 2
    /\ ~github.get.contacted[1].ok
    /\ github.get.ret.source = <<"github", github.repos[2]>>

----------------------------------------------------------------------------
(* GitHubProvider.BulkImport and importFromRepo, with the callback run by *)
(* the goroutine of the import                                            *)

MaxRuns == 2

ImportSymbols == {"AAPL", "MSFT"}

Importer == "w1"

(* githubTreeEntry: Type, and Path as its directories, file name and extension *)
Entry(type, dir, name, ext) == [type |-> type, dir |-> dir, name |-> name, ext |-> ext]

ScenarioListing ==
    <<Entry("blob", <<"ticker_icons">>, "AAPL", ".png"),
      Entry("blob", <<"ticker_icons">>, "MSFT", ".png"),
      Entry("blob", << >>, "README", ".md")>>

MixedListing ==
    <<Entry("tree", << >>, "ticker_icons", ""),
      Entry("blob", <<"ticker_icons">>, "notes", ".txt"),
      Entry("blob", <<"logos">>, "AAPL", ".png"),
      Entry("blob", <<"ticker_icons">>, "msft", ".png")>>

(* fetchTree returns the entries of the tree, or an error *)
Tree(entries) == [err |-> ErrNil, entries |-> entries, truncated |-> FALSE]

FetchFails == [err |-> "fetching tree", entries |-> << >>, truncated |-> FALSE]

(* the reply of a large repository: tree.Truncated, and the part of the *)
(* tree that fitted                                                     *)
TruncatedListing ==
    [err |-> ErrNil, truncated |-> TRUE,
     entries |-> <<Entry("blob", <<"ticker_icons">>, "AAPL", ".png")>>]

Listings == {Tree(ScenarioListing), Tree(MixedListing), TruncatedListing}

(* fetchTree: the request fails when the context is cancelled or GitHub *)
(* answers with an error; a truncated tree is logged and returned       *)
FetchTreeRejectsTruncated(reply, ctx) ==
    IF ctx = "cancelled" \/ reply.err # ErrNil \/ reply.truncated
    THEN [err |-> "fetching tree", entries |-> << >>]
    ELSE [err |-> ErrNil, entries |-> reply.entries]

FetchTree(reply, ctx) ==
    IF ctx = "cancelled" \/ reply.err # ErrNil
    THEN [err |-> "fetching tree", entries |-> << >>]
    ELSE [err |-> ErrNil, entries |-> reply.entries]

ImportRepoLists == {<<"davidepalazzo/ticker-logos">>,
                    <<"davidepalazzo/ticker-logos", "nvstly/icons">>}

(* the callbacks: the one AdminHandler.Import and the CLI pass, and *)
(* LogoService.ProcessAndStore                                      *)
Callbacks == {"makeImportCallback", "ProcessAndStore"}

(* entry.Type == "blob", HasPrefix(entry.Path, "ticker_icons/"), *)
(* HasSuffix(entry.Path, ".png")                                 *)
IsCandidateAnyFile(entry) ==
    /\ entry.type = "blob"
    /\ Len(entry.dir) > 0 /\ entry.dir[1] = "ticker_icons"

IsCandidate(entry) ==
    /\ entry.type = "blob"
    /\ Len(entry.dir) > 0 /\ entry.dir[1] = "ticker_icons"
    /\ entry.ext = ".png"

(* strings.ToUpper(strings.TrimSuffix(path.Base(entry.Path), ".png")) *)
EntrySymbol(entry) == ToUpper(entry.name)

(* strings.Contains(err.Error(), "already exists") *)
AlreadyExistsNever(err) == FALSE

AlreadyExists(err) == err = "already exists"

Counters(st) ==
    [Total |-> st.Total, Imported |-> st.Imported, Skipped |-> st.Skipped, Failed |-> st.Failed]

(* stats.Failed++ and the error string of the candidate *)
CountFailed(st, symbol, text) ==
    [st EXCEPT !.Failed = st.Failed + 1, !.Errors = Append(st.Errors, <<symbol, text>>)]

(* what importFromRepo does with the error of the callback *)
CountCallback(st, symbol, err) ==
    IF err # ErrNil
    THEN IF AlreadyExists(err)
         THEN [st EXCEPT !.Skipped = st.Skipped + 1]
         ELSE CountFailed(st, symbol, err)
    ELSE [st EXCEPT !.Imported = st.Imported + 1]

(* BulkImport adds the statistics of a repository to its own *)
AddStats(st, rs) ==
    [Total |-> st.Total + rs.Total, Imported |-> st.Imported + rs.Imported,
     Skipped |-> st.Skipped + rs.Skipped, Failed |-> st.Failed + rs.Failed,
     Errors |-> st.Errors \o rs.Errors]

(* BulkImport after importFromRepo returned an error: the error string *)
(* only, the statistics of the repository are not added                *)
RepoFailed(m, repo, text) ==
    [m EXCEPT !.stats.Errors = Append(m.stats.Errors, <<repo, text>>),
              !.r = m.r + 1, !.pc = "repo"]

(* one line of the history of a run: the entry, what happened to it, and *)
(* the counters of the repository before and after it                    *)
Logged(m, entry, dl, cb, after) ==
    Append(m.log, [repo |-> github.repos[m.r], entry |-> entry, dl |-> dl, cb |-> cb,
                   before |-> Counters(m.was), after |-> Counters(after)])

ImportStart(cbs) ==
    /\ FsIdle /\ LlmIdle /\ AgentIdle /\ HttpIdle
    /\ logos = [s \in ImportSymbols |-> NoRecord]
    /\ nextId = 1
    /\ blobs = [k \in ImportSymbols \X Sizes |-> NoBlob]
    /\ task = [w \in Workers |-> IdleTask]
    /\ producedBy = [s \in ImportSymbols |-> {}]
    /\ running = {Importer} /\ calls = 0 /\ faults = MaxFaults
    /\ llmProvider = << >>
    /\ repos \in ImportRepoLists
    /\ \E trees \in [Range(repos) -> Listings \cup {FetchFails}] :
         github = [repos |-> repos, trees |-> trees]
    /\ \E cb \in cbs : imp = [IdleImport EXCEPT !.callback = cb]

ImportInit == ImportStart(Callbacks)

(* AdminHandler.Import or the CLI calls BulkImport(ctx, callback) *)
ImpBulkImport ==
    /\ imp.pc = "idle"
    /\ imp.runs < MaxRuns
    /\ imp' = [IdleImport EXCEPT !.pc = "repo", !.callback = imp.callback, !.r = 1,
                                 !.runs = imp.runs + 1,
                                 !.before = <<logos, blobs>>]
    /\ UNCHANGED <<github, task, logos, nextId, blobs, producedBy, calls, faults, Config,
                   FsVars, LlmVars, AgentVars, HttpVars>>

(* the context of the import is cancelled (the CLI's signal handler); a   *)
(* cancellation while the callback runs is seen at the next ctx.Done()    *)
(* check, as one right after the callback returned is, unless the         *)
(* callback itself uses the context (the CLI's does)                      *)
ImpCancel ==
    /\ \/ imp.pc \in {"repo", "entry", "download"}
       \/ imp.pc = "callback" /\ imp.callback = "runGitHubImport"
    /\ imp.ctx = "live"
    /\ imp' = [imp EXCEPT !.ctx = "cancelled"]
    /\ UNCHANGED <<github, ImportOthers>>

(* for _, repo := range g.repos: importFromRepo starts with fetchTree, *)
(* whose request fails when the context is cancelled                   *)
ImpFetchTree ==
    /\ imp.pc = "repo"
    /\ imp.r <= Len(github.repos)
    /\ LET repo == github.repos[imp.r] IN
       imp' = IF FetchTree(github.trees[repo], imp.ctx).err # ErrNil
              THEN RepoFailed(imp, repo, "fetching tree")
              ELSE [imp EXCEPT !.pc = "entry", !.e = 1, !.repoStats = NoStats,
                               !.was = NoStats]
    /\ UNCHANGED <<github, ImportOthers>>

(* the three filters: an entry that is not a candidate is passed over *)
ImpSkipEntry ==
    /\ imp.pc = "entry"
    /\ LET entries == github.trees[github.repos[imp.r]].entries IN
       /\ imp.e <= Len(entries)
       /\ ~IsCandidate(entries[imp.e])
       /\ imp' = [imp EXCEPT !.e = imp.e + 1,
                             !.log = Logged(imp, entries[imp.e], "none", "none", imp.repoStats)]
    /\ UNCHANGED <<github, ImportOthers>>

(* a candidate: stats.Total++, then the check of ctx.Done() *)
ImpCandidate ==
    /\ imp.pc = "entry"
    /\ LET entries == github.trees[github.repos[imp.r]].entries IN
       /\ imp.e <= Len(entries)
       /\ IsCandidate(entries[imp.e])
       /\ LET st == [imp.repoStats EXCEPT !.Total = imp.repoStats.Total + 1] IN
          imp' = IF imp.ctx = "cancelled"
                 THEN [RepoFailed(imp, github.repos[imp.r], "context canceled")
                          EXCEPT !.repoStats = st,
                                 !.log = Logged(imp, entries[imp.e], "none", "cancelled", st)]
                 ELSE [imp EXCEPT !.pc = "download", !.repoStats = st]
    /\ UNCHANGED <<github, ImportOthers>>

(* g.downloadFile fails: stats.Failed++ and the next entry *)
ImpDownloadFails ==
    /\ imp.pc = "download"
    /\ LET entry == github.trees[github.repos[imp.r]].entries[imp.e]
           st == CountFailed(imp.repoStats, EntrySymbol(entry), "download failed")
       IN imp' = [imp EXCEPT !.pc = "entry", !.e = imp.e + 1, !.repoStats = st,
                             !.was = st,
                             !.log = Logged(imp, entry, "failed", "none", st)]
    /\ UNCHANGED <<github, ImportOthers>>

(* g.downloadFile succeeds and the callback is called with the result *)
ImpDownload ==
    /\ imp.pc = "download"
    /\ imp.ctx = "live"
    /\ \E image \in Images :
         LET entry == github.trees[github.repos[imp.r]].entries[imp.e]
             result == [symbol |-> EntrySymbol(entry), image |-> image,
                        source |-> <<"github", github.repos[imp.r]>>]
         IN /\ task' = [task EXCEPT ![Importer] =
                  IF imp.callback = "ProcessAndStore"
                  THEN [IdleTask EXCEPT !.pc = "upsert", !.op = "ProcessAndStore",
                                        !.symbol = result.symbol, !.result = result]
                  ELSE [IdleTask EXCEPT !.pc = "callback", !.op = "ImportCallback",
                                        !.symbol = result.symbol, !.result = result]]
            /\ imp' = [imp EXCEPT !.pc = "callback"]
    /\ UNCHANGED <<github, logos, nextId, blobs, producedBy, calls, faults, Config,
                   FsVars, LlmVars, AgentVars, HttpVars>>

(* the callback returned: Imported, Skipped or Failed *)
ImpCallbackReturned ==
    /\ imp.pc = "callback"
    /\ task[Importer].pc = "done"
    /\ LET entry == github.trees[github.repos[imp.r]].entries[imp.e]
           err == task[Importer].ret.err
           st == CountCallback(imp.repoStats, EntrySymbol(entry), err)
       IN imp' = [imp EXCEPT !.pc = "entry", !.e = imp.e + 1, !.repoStats = st,
                             !.was = st,
                             !.log = Logged(imp, entry, "ok", err, st)]
    /\ task' = [task EXCEPT ![Importer] = IdleTask]
    /\ UNCHANGED <<github, logos, nextId, blobs, producedBy, calls, faults, Config,
                   FsVars, LlmVars, AgentVars, HttpVars>>

(* importFromRepo returns stats, nil and BulkImport adds them up *)
ImpRepoDone ==
    /\ imp.pc = "entry"
    /\ imp.e > Len(github.trees[github.repos[imp.r]].entries)
    /\ imp' = [imp EXCEPT !.pc = "repo", !.r = imp.r + 1,
                          !.stats = AddStats(imp.stats, imp.repoStats)]
    /\ UNCHANGED <<github, ImportOthers>>

(* return stats, nil *)
ImpReturn ==
    /\ imp.pc = "repo"
    /\ imp.r > Len(github.repos)
    /\ imp' = [imp EXCEPT !.pc = "done", !.ret = [err |-> ErrNil, stats |-> imp.stats]]
    /\ UNCHANGED <<github, ImportOthers>>

(* the import is started again later *)
ImpAgain ==
    /\ imp.pc = "done"
    /\ imp.runs < MaxRuns
    /\ imp' = [imp EXCEPT !.pc = "idle"]
    /\ UNCHANGED <<github, ImportOthers>>

ImportNext ==
    \/ ImpBulkImport
    \/ ImpCancel
    \/ ImpFetchTree
    \/ ImpSkipEntry
    \/ ImpCandidate
    \/ ImpDownloadFails
    \/ ImpDownload
    \/ ImpCallbackReturned
    \/ ImpRepoDone
    \/ ImpReturn
    \/ ImpAgain
    \/ Upsert(Importer)
    \/ ImportCallback(Importer)
    \/ CreateRecord(Importer)
    \/ ProcessAllStep(Importer)
    \/ MarkFailed(Importer)
    \/ MarkSize(Importer)
    \/ MarkProcessed(Importer)

SpecImport == ImportInit /\ [][ImportNext]_vars

(* the lines of the history of a run *)
Lines == 1..Len(imp.log)

(* a blob under ticker_icons/ whose path ends in .png *)
UnderIconsPng(entry) ==
    /\ entry.type = "blob"
    /\ entry.dir # << >> /\ Head(entry.dir) = "ticker_icons"
    /\ entry.ext = ".png"

ZeroCounters == [Total |-> 0, Imported |-> 0, Skipped |-> 0, Failed |-> 0]

(* the counters after a line differ from those before it by d *)
Delta(line, d) ==
    /\ line.after.Total = line.before.Total + d.Total
    /\ line.after.Imported = line.before.Imported + d.Imported
    /\ line.after.Skipped = line.before.Skipped + d.Skipped
    /\ line.after.Failed = line.before.Failed + d.Failed

(* the lines of the repositories whose statistics BulkImport added: those *)
(* that importFromRepo walked to the end                                  *)
Cancelled(repo) == \E k \in Lines : imp.log[k].repo = repo /\ imp.log[k].cb = "cancelled"

Counted(dls, cbs) ==
    Cardinality({k \in Lines : /\ UnderIconsPng(imp.log[k].entry)
                               /\ ~Cancelled(imp.log[k].repo)
                               /\ imp.log[k].dl \in dls
                               /\ imp.log[k].cb \in cbs})

CallbackErrors == {"creating record", "processing", "setting status"}

RerunOverProcessed ==
    /\ imp.pc = "done"
    /\ imp.runs >= 2
    /\ imp.ctx = "live"
    /\ \A k \in Lines : imp.log[k].cb # "cancelled"
    /\ \A i \in 1..Len(github.repos) :
         LET tree == github.trees[github.repos[i]] IN
         /\ tree.err = ErrNil
         /\ \A j \in 1..Len(tree.entries) :
              UnderIconsPng(tree.entries[j]) =>
                 LET was == imp.before[1][ToUpper(tree.entries[j].name)] IN
                 was # NoRecord /\ was.status = StatusProcessed

AllDownloaded == \A k \in Lines : imp.log[k].dl # "failed"

Candidates == Cardinality({k \in Lines : UnderIconsPng(imp.log[k].entry)})

RECURSIVE EntriesOf(_, _)
EntriesOf(log, repo) ==
    IF log = << >> THEN << >>
    ELSE IF Head(log).repo = repo
    THEN <<Head(log).entry>> \o EntriesOf(Tail(log), repo)
    ELSE EntriesOf(Tail(log), repo)

(* C21: an import whose context stays live returns nil; a repository whose *)
(* tree listing failed is named in the error list and none of its files is *)
(* handled, and every other repository, before or after it, is walked to   *)
(* the end of its listing, the partial listing of a truncated tree         *)
(* included                                                                *)
C21_RepoFailureIsolated ==
    (imp.pc = "done" /\ imp.ctx = "live") =>
        /\ imp.ret.err = ErrNil
        /\ \A i \in 1..Len(github.repos) :
             LET repo == github.repos[i]
                 reply == github.trees[repo]
             IN IF reply.err # ErrNil
                THEN /\ \E k \in 1..Len(imp.ret.stats.Errors) :
                            imp.ret.stats.Errors[k] = <<repo, "fetching tree">>
                     /\ EntriesOf(imp.log, repo) = << >>
                ELSE /\ EntriesOf(imp.log, repo) = reply.entries
                     /\ \A k \in 1..Len(imp.ret.stats.Errors) :
                            imp.ret.stats.Errors[k][1] # repo

(* C21 witness: the first repository's listing failed, the second one's *)
(* was truncated, and the file it lists was imported                    *)
C21_Witness ==
    /\ imp.pc = "done" /\ imp.ctx = "live"
    /\ Len(github.repos) = 2
    /\ github.trees[github.repos[1]].err # ErrNil
    /\ github.trees[github.repos[2]].truncated
    /\ imp.ret.stats.Imported = 1
    /\ Len(imp.ret.stats.Errors) = 1

(* the lines of the history with the given download and callback outcomes, *)
(* those of a repository whose walk was cancelled included                 *)
Handled(dls, cbs) ==
    Cardinality({k \in Lines : /\ UnderIconsPng(imp.log[k].entry)
                               /\ imp.log[k].dl \in dls
                               /\ imp.log[k].cb \in cbs})

(* C22: when importFromRepo notices the cancelled context at a candidate,  *)
(* BulkImport returns the cancellation error, its statistics hold what was *)
(* counted up to then, and the callback is called for no later candidate   *)
C22_CancelReturnsCounts ==
    (imp.pc = "done" /\ \E k \in Lines : imp.log[k].cb = "cancelled") =>
        /\ imp.ret.err # ErrNil
        /\ imp.ret.stats.Imported = Handled({"ok"}, {ErrNil})
        /\ imp.ret.stats.Skipped = Handled({"ok"}, {"already exists"})
        /\ imp.ret.stats.Failed = Handled({"failed"}, {"none"}) + Handled({"ok"}, CallbackErrors)
        /\ imp.ret.stats.Total >= imp.ret.stats.Imported + imp.ret.stats.Skipped
                                  + imp.ret.stats.Failed
        /\ \A k, j \in Lines :
              (imp.log[k].cb = "cancelled" /\ j > k) => imp.log[j].dl # "ok"

----------------------------------------------------------------------------
(* cmd/cli: runGitHubImport.  The callback is the closure of the CLI, which *)
(* reads and writes the repository with the context of the import, and the  *)
(* signal handler cancels that context at any moment                        *)

CliInit == ImportStart({"runGitHubImport"})

CliNext ==
    \/ ImpBulkImport
    \/ ImpCancel
    \/ ImpFetchTree
    \/ ImpSkipEntry
    \/ ImpCandidate
    \/ ImpDownloadFails
    \/ ImpDownload
    \/ ImpCallbackReturned
    \/ ImpRepoDone
    \/ ImpReturn
    \/ ImportCallback(Importer)
    \/ CreateRecord(Importer)
    \/ ProcessAllStep(Importer)
    \/ MarkFailed(Importer)
    \/ MarkSize(Importer)
    \/ MarkProcessed(Importer)

SpecCli == CliInit /\ [][CliNext]_vars

(* the sizes of a symbol that have a blob in the Blob Store *)
Written(s) == {z \in Sizes : blobs[<<s, z>>] # NoBlob}

(* C23: when a cancelled import has returned, every symbol the callback  *)
(* ingested is processed, and every symbol with blobs in the Blob Store  *)
(* has a record that is not pending and carries the flags of the written *)
(* sizes                                                                 *)
C23_CancelLeavesConsistent ==
    (imp.pc = "done" /\ imp.ctx = "cancelled") =>
        /\ \A k \in Lines :
              (imp.log[k].dl = "ok" /\ imp.log[k].cb = ErrNil) =>
                  LET logo == logos[ToUpper(imp.log[k].entry.name)] IN
                  logo # NoRecord /\ logo.status = StatusProcessed
        /\ \A s \in ImportSymbols :
              Written(s) # {} =>
                  /\ logos[s] # NoRecord
                  /\ logos[s].status # StatusPending
                  /\ Written(s) \subseteq logos[s].flags

----------------------------------------------------------------------------
(* no storage error was injected so far *)
NoFault == faults = (IF running = Workers THEN MaxFaults ELSE 0)

(* the only call so far is a GetLogo for a symbol without a record, served *)
(* by the single LLM backend with an image that resizes at every size,     *)
(* with no mirror repository configured and no storage error               *)
LlmOnlyMiss(w) ==
    LET t == task[w] IN
    /\ t.op = "GetLogo" /\ t.pc = "done"
    /\ calls = 1 /\ NoFault
    /\ repos = << >> /\ Len(llmProvider) = 1
    /\ t.cache.seen = ErrNotFound
    /\ t.result # NoResult /\ t.result.image = "png"

(* C24: with no mirror repository and one LLM backend that returns a valid *)
(* logo, GetLogo for an unknown symbol returns the blob and leaves the     *)
(* record processed, with every size flag and the source llm:<backend>     *)
C24_LlmOnlyIngest ==
    \A w \in Workers :
        LlmOnlyMiss(w) =>
            LET t == task[w] IN
            /\ t.trace = <<"github", "llm">>
            /\ t.ret.err = ErrNil
            /\ t.ret.data = blobs[<<t.symbol, t.size>>]
            /\ Exists(t.symbol)
            /\ logos[t.symbol].status = StatusProcessed
            /\ logos[t.symbol].flags = Sizes
            /\ logos[t.symbol].source = <<"llm", llmProvider[1]>>

(* C24 witness: such a call has returned *)
C24_Witness ==
    \E w \in Workers : LlmOnlyMiss(w) /\ task[w].ret.err = ErrNil

----------------------------------------------------------------------------
(* the sizes ProcessAll has handled after k iterations *)
FirstSizes(k) == {AllSizes[i] : i \in 1..k}

(* C25: ProcessAll goes through the five sizes in order, whatever fails:    *)
(* each iteration adds the entry of its size to the map, true exactly when  *)
(* the resize succeeded and the blob was written (and then the blob is the  *)
(* resized image), false otherwise with the blob left as it was; after the  *)
(* fifth the map has the five sizes, and the error is non-nil exactly when  *)
(* some size maps to false                                                  *)
C25_ProcessAllIndependent ==
    [][\A w \in Workers :
        LET t == task[w]
            u == task'[w]
        IN (t.pc = "processAll" /\ u # t) =>
           LET size == AllSizes[t.idx]
               key == <<t.result.symbol, size>>
               resized == ~BimgFails(t.result.image, SizePixels[size])
               written == resized /\ faults' = faults
           IN /\ t.idx \in 1..Len(AllSizes)
              /\ DOMAIN t.results = FirstSizes(t.idx - 1)
              /\ u.idx = t.idx + 1
              /\ DOMAIN u.results = FirstSizes(t.idx)
              /\ \A z \in DOMAIN t.results : u.results[z] = t.results[z]
              /\ u.results[size] = written
              /\ written => blobs'[key] = Resized(t.result.image, size)
              /\ ~written => blobs' = blobs
              /\ (Len(u.errs) > 0) = (\E z \in DOMAIN u.results : ~u.results[z])
              /\ IF t.idx < Len(AllSizes)
                 THEN u.pc = "processAll"
                 ELSE /\ DOMAIN u.results = Sizes
                      /\ u.pc = (IF \E z \in Sizes : ~u.results[z]
                                 THEN "markFailed" ELSE "markSizes")
      ]_vars

(* C25 witness: ProcessAll has ended with an error and a map in which the *)
(* largest size is false and the four sizes before it are true            *)
C25_Witness ==
    \E w \in Workers :
        /\ task[w].pc = "markFailed"
        /\ DOMAIN task[w].results = Sizes
        /\ ~task[w].results["xl"]
        /\ \A z \in Sizes \ {"xl"} : task[w].results[z]

----------------------------------------------------------------------------
(* The stores addressed with a symbol as a caller spells it.  The metadata  *)
(* table declares "symbol TEXT NOT NULL UNIQUE" and GetBySymbol selects     *)
(* "WHERE symbol = ?": two spellings are two keys.  LogoPath joins the      *)
(* symbol into the path as given.  One goroutine, no storage errors.        *)

Spellings == {"aapl", "AAPL"}

CaseInit ==
    /\ logos = [s \in Spellings |-> NoRecord]
    /\ nextId = 1
    /\ blobs = [k \in Spellings \X Sizes |-> NoBlob]
    /\ task = [w \in Workers |-> IdleTask]
    /\ \E c \in Configs : repos = c[1] /\ llmProvider = c[2]
    /\ producedBy = [s \in Spellings |-> {}]
    /\ calls = 0
    /\ running = {"w1"} /\ faults = MaxFaults
    /\ RestIdle

SpecCase == CaseInit /\ [][Next]_vars

(* C26: every orchestrator and metadata store operation is keyed by the    *)
(* uppercased symbol: no record and no blob is ever kept under a spelling  *)
(* that is not its own uppercase, and a GetLogo called with a spelling s   *)
(* that returns without error returns the blob of uppercase(s).            *)
C26_KeyedByUppercase ==
    /\ \A s \in DOMAIN logos :
          s # ToUpper(s) =>
             /\ logos[s] = NoRecord
             /\ \A z \in Sizes : blobs[<<s, z>>] = NoBlob
    /\ \A w \in Workers :
          LET t == task[w] IN
          (t.pc = "done" /\ t.op = "GetLogo" /\ t.ret.err = ErrNil)
             => t.ret.data = blobs[<<ToUpper(t.symbol), t.size>>]
    /\ \A w \in Workers :
          LET t == task[w] IN
          (/\ t.pc = "done" /\ t.op = "GetLogo"
           /\ logos[ToUpper(t.symbol)] # NoRecord
           /\ logos[ToUpper(t.symbol)].status = StatusProcessed
           /\ t.size \in logos[ToUpper(t.symbol)].flags)
             => t.ret.err = ErrNil

(* C27: a Create for a symbol that already has a record fails and leaves   *)
(* the table as it was; a Create that succeeds stores the record under a   *)
(* fresh non-zero identifier, and a GetBySymbol after it returns that      *)
(* record with the status it was created with.                             *)
C27_CreateUnique ==
    [][\A w \in Workers :
        LET t == task[w]
            u == task'[w]
            sym == t.result.symbol
            got == GetBySymbol(logos', sym, FALSE)
        IN (t.pc = "create" /\ u.pc # "create") =>
             IF logos[sym] # NoRecord
             THEN /\ u.pc = "done" /\ u.ret.err = "creating record"
                  /\ logos' = logos /\ nextId' = nextId
             ELSE IF u.pc = "done"
             THEN /\ u.ret.err = "creating record"
                  /\ faults' # faults
                  /\ logos' = logos
             ELSE /\ got.err = ErrNil
                  /\ got.logo.symbol = sym
                  /\ got.logo.id = nextId /\ got.logo.id # 0
                  /\ got.logo.status = StatusPending
                  /\ got.logo.source = t.result.source
                  /\ nextId' > nextId
                  /\ \A s \in DOMAIN logos \ {sym} : logos'[s] = logos[s]
      ]_vars

(* two calls both found no record; the second Create hit the record of the first *)
C27_Witness ==
    \E w \in Workers, v \in Workers :
        /\ w # v /\ faults = MaxFaults /\ running = Workers
        /\ task[w].pc = "done" /\ task[w].ret.err = "creating record"
        /\ task[w].seen = ErrNotFound
        /\ task[v].wrote /\ task[v].seen = ErrNotFound
        /\ task[v].pc \in {"processAll", "done"} /\ task[v].ret.err # "creating record"
        /\ logos[task[w].result.symbol] # NoRecord
        /\ logos[task[w].result.symbol].id = 1

----------------------------------------------------------------------------
(* The blob store on its own: one caller after the other calls Write,      *)
(* Read, Exists and DeleteSymbol of FileSystem.  "writer" holds the last   *)
(* call and what it returned.                                              *)

BlobSymbols == {"AAPL", "MSFT"}

(* the bytes handed to Write *)
Payloads == {<<0>>, <<1, 0>>}

Stored(b) == [missing |-> FALSE, bytes |-> b]

NoCall ==
    [op |-> "none", symbol |-> "none", size |-> "none", data |-> NoBlob,
     err |-> ErrNil, read |-> NoBlob, exists |-> FALSE]

BlobCall(op, symbol, size) == [NoCall EXCEPT !.op = op, !.symbol = symbol, !.size = size]

BlobInit ==
    /\ logos = [s \in BlobSymbols |-> NoRecord]
    /\ nextId = 1
    /\ blobs = [k \in BlobSymbols \X Sizes |-> NoBlob]
    /\ task = [w \in Workers |-> IdleTask]
    /\ producedBy = [s \in BlobSymbols |-> {}]
    /\ running = {} /\ calls = 0 /\ faults = 0
    /\ NoProviders /\ LlmIdle /\ AgentIdle /\ HttpIdle /\ ImportIdle
    /\ disk = NoFile /\ reader = IdleReader
    /\ writer = NoCall

BlobFrame == <<logos, nextId, task, repos, llmProvider, producedBy, running, calls, faults,
               disk, reader, LlmVars, AgentVars, ImportVars, HttpVars>>

(* fs.Write(symbol, size, data) *)
BlobWrite ==
    /\ \E symbol \in BlobSymbols, size \in ReqSizes, b \in Payloads, fail \in BOOLEAN :
         LET r == FsWrite(blobs, symbol, size, Stored(b), fail) IN
         /\ blobs' = r.fs
         /\ writer' = [BlobCall("Write", symbol, size) EXCEPT !.data = Stored(b), !.err = r.err]
    /\ UNCHANGED BlobFrame

(* fs.Read(symbol, size) *)
BlobRead ==
    /\ \E symbol \in BlobSymbols, size \in Sizes :
         LET r == FsRead(blobs, symbol, size) IN
         writer' = [BlobCall("Read", symbol, size) EXCEPT !.err = r.err, !.read = r.data]
    /\ UNCHANGED <<blobs, BlobFrame>>

(* fs.Exists(symbol, size) *)
BlobExists ==
    /\ \E symbol \in BlobSymbols, size \in Sizes :
         writer' = [BlobCall("Exists", symbol, size) EXCEPT
                       !.exists = FsExists(blobs, symbol, size)]
    /\ UNCHANGED <<blobs, BlobFrame>>

(* fs.DeleteSymbol(symbol) *)
BlobDeleteSymbol ==
    /\ \E symbol \in BlobSymbols :
         /\ blobs' = FsDeleteSymbol(blobs, symbol)
         /\ writer' = BlobCall("DeleteSymbol", symbol, "none")
    /\ UNCHANGED BlobFrame

BlobNext == BlobWrite \/ BlobRead \/ BlobExists \/ BlobDeleteSymbol

SpecBlob == BlobInit /\ [][BlobNext]_vars

Present(fs, k) == fs[k] # NoBlob

(* C28: a Write that succeeds makes its key present with exactly the bytes *)
(* written, replacing what was there, and leaves every other key alone;    *)
(* Read and Exists change no blob, Read returns the bytes of a present     *)
(* key and fails on an absent one, Exists tells present from absent;       *)
(* DeleteSymbol leaves all five sizes of its symbol absent and the blobs   *)
(* of the other symbols as they were.                                      *)
C28_BlobRoundTrip ==
    [][LET c == writer'
           k == <<c.symbol, c.size>>
       IN /\ (c.op = "Write" /\ c.err = ErrNil) =>
                /\ Present(blobs', k) /\ blobs'[k] = c.data
                /\ \A j \in DOMAIN blobs \ {k} : blobs'[j] = blobs[j]
          /\ (c.op = "Write" /\ c.err # ErrNil) => blobs' = blobs
          /\ c.op = "Read" =>
                /\ blobs' = blobs
                /\ IF Present(blobs, k)
                   THEN c.err = ErrNil /\ c.read = blobs[k]
                   ELSE c.err # ErrNil /\ c.read = NoBlob
          /\ c.op = "Exists" =>
                /\ blobs' = blobs
                /\ c.exists = Present(blobs, k)
          /\ c.op = "DeleteSymbol" =>
                /\ c.err = ErrNil
                /\ \A z \in Sizes : ~Present(blobs', <<c.symbol, z>>)
                /\ \A j \in DOMAIN blobs : j[1] # c.symbol => blobs'[j] = blobs[j]
      ]_vars

(* a Read returns the two bytes written for one symbol while the other *)
(* symbol has no blob at any size                                      *)
C28_Witness ==
    /\ writer.op = "Read" /\ writer.err = ErrNil
    /\ writer.symbol = "MSFT" /\ writer.read = Stored(<<1, 0>>)
    /\ \A z \in Sizes : ~Present(blobs, <<"AAPL", z>>)

----------------------------------------------------------------------------
(* service: parseHexColor.  A string is a sequence of one-byte characters. *)

HexLen == 6
Width == 2

LowerHex == <<"0", "1", "2", "3", "4", "5", "6", "7", "8", "9", "a", "b", "c", "d", "e", "f">>
UpperHex == <<"0", "1", "2", "3", "4", "5", "6", "7", "8", "9", "A", "B", "C", "D", "E", "F">>

(* fmt: the digits the verb x accepts *)
hexadecimalDigits == Range(LowerHex) \cup Range(UpperHex)

HexValue(c) == CHOOSE v \in 0..15 : c \in {LowerHex[v + 1], UpperHex[v + 1]}

(* strconv.ParseUint(tok, 16, 64) of a token of hexadecimal digits *)
RECURSIVE ParseUint(_)
ParseUint(tok) ==
    IF tok = << >> THEN 0
    ELSE 16 * ParseUint(SubSeq(tok, 1, Len(tok) - 1)) + HexValue(tok[Len(tok)])

(* strings.TrimPrefix(s, "#") *)
TrimPrefix(s, c) == IF Len(s) > 0 /\ s[1] = c THEN Tail(s) ELSE s

isSpace(c) == c = " "

(* fmt: ss.SkipSpace, the position of the first character at or after i *)
(* that is not a space                                                  *)
RECURSIVE SkipSpace(_, _)
SkipSpace(s, i) ==
    IF i <= Len(s) /\ isSpace(s[i]) THEN SkipSpace(s, i + 1) ELSE i

(* fmt: the loop of ss.scanNumber, accepting digits below the width limit *)
RECURSIVE AcceptDigits(_, _, _)
AcceptDigits(s, k, limit) ==
    IF k < limit /\ k <= Len(s) /\ s[k] \in hexadecimalDigits
    THEN AcceptDigits(s, k + 1, limit) ELSE k

(* fmt: one verb %02x of doScanf into a *uint8.  doScanf skips spaces,    *)
(* then limits the argument to Width characters; scanUint fails at the    *)
(* end of the input, scanNumber wants one digit and takes those that      *)
(* follow within the limit.  What is left of the input is not looked at.  *)
ScanHex(s, i) ==
    LET j == SkipSpace(s, i)
        k == AcceptDigits(s, j + 1, j + Width)
    IN IF j > Len(s) THEN [err |-> "unexpected EOF", val |-> 0, next |-> j]
       ELSE IF s[j] \notin hexadecimalDigits
       THEN [err |-> "expected integer", val |-> 0, next |-> j]
       ELSE [err |-> ErrNil, val |-> ParseUint(SubSeq(s, j, k - 1)), next |-> k]

NoColor(err) == [err |-> err, r |-> 0, g |-> 0, b |-> 0]

parseHexColor(hex) ==
    LET h == TrimPrefix(hex, "#")
        r == ScanHex(h, 1)
        g == ScanHex(h, r.next)
        b == ScanHex(h, g.next)
    IN IF Len(h) # HexLen THEN NoColor("invalid hex color")
       ELSE IF r.err # ErrNil \/ g.err # ErrNil \/ b.err # ErrNil
       THEN NoColor("parsing hex color")
       ELSE [err |-> ErrNil, r |-> r.val, g |-> g.val, b |-> b.val]

(* the characters of the query strings tried, and the strings *)
Chars == {"0", "a", "F", "g", " ", "#"}

Queries == UNION {[1..n -> Chars] : n \in 0..(HexLen + 1)}

HttpOthers == <<Core, FsVars, LlmVars, AgentVars, ImportVars>>

ColorInit ==
    /\ CoreIdle /\ NoProviders /\ FsIdle /\ LlmIdle /\ AgentIdle /\ ImportIdle
    /\ \E q \in Queries : http = [IdleHttp EXCEPT !.bg = q]

(* ApplyBackground calls parseHexColor(hexColor) *)
ColorParse ==
    /\ http.pc = "idle"
    /\ http' = [http EXCEPT !.pc = "parsed", !.color = parseHexColor(http.bg)]
    /\ UNCHANGED HttpOthers

SpecColor == ColorInit /\ [][ColorParse]_vars

SixHexDigits(h) ==
    /\ Len(h) = 6
    /\ \A i \in 1..Len(h) : h[i] \in Range(LowerHex) \cup Range(UpperHex)

PairValue(h, i) == 16 * HexValue(h[i]) + HexValue(h[i + 1])

(* C29: the colour parser accepts a string exactly when, with one leading *)
(* "#" removed if there is one, it is six hexadecimal digits of either    *)
(* case, and then yields the values of the three digit pairs; every other *)
(* string is rejected.                                                    *)
C29_ColorParserExact ==
    http.pc = "parsed" =>
        LET q == http.bg
            h == IF Len(q) > 0 /\ q[1] = "#" THEN SubSeq(q, 2, Len(q)) ELSE q
        IN /\ (http.color.err = ErrNil) <=> SixHexDigits(h)
           /\ SixHexDigits(h) =>
                 /\ http.color.r = PairValue(h, 1)
                 /\ http.color.g = PairValue(h, 3)
                 /\ http.color.b = PairValue(h, 5)

----------------------------------------------------------------------------
(* The serving path: LogoHandler.GetLogo of the server, one request after *)
(* the other on goroutine "w1", over LogoService.GetLogo.                  *)

Server == "w1"

(* what clients put in the path and in the query *)
PathSymbols == {"aapl", "AAPL"}
QuerySizes == ReqSizes \cup {"huge"}
Backgrounds == {<< >>, <<"F", "F", "F", "F", "F", "F">>, <<"F", "F", "F">>,
                <<"F", "F", "F", "F", "F", "g">>}

ValidSize(s) == s \in Sizes

(* service.ApplyBackground: the colour is parsed, bimg flattens the alpha *)
(* channel of the image onto it and returns the new bytes                 *)
ApplyBackground(imageData, hexColor) ==
    LET c == parseHexColor(hexColor) IN
    IF c.err # ErrNil THEN [err |-> c.err, data |-> NoBlob]
    ELSE [err |-> ErrNil,
          data |-> [type |-> "png", src |-> imageData.src, width |-> imageData.width,
                    height |-> imageData.height, background |-> <<c.r, c.g, c.b>>]]

Respond(code, body) ==
    [http EXCEPT !.pc = "responded", !.code = code, !.body = body]

ServeInit ==
    /\ logos = [s \in Symbols |-> NoRecord]
    /\ nextId = 1
    /\ blobs = [k \in Symbols \X Sizes |-> NoBlob]
    /\ task = [w \in Workers |-> IdleTask]
    /\ \E c \in Configs : repos = c[1] /\ llmProvider = c[2]
    /\ producedBy = [s \in Symbols |-> {}]
    /\ calls = 0
    /\ running = {Server} /\ faults = MaxFaults
    /\ RestIdle

ServeFrame == <<FsVars, LlmVars, AgentVars, ImportVars>>

(* GET /api/v1/logos/:symbol?size=..&bg=..: the symbol is uppercased, the *)
(* size validated, LogoService.GetLogo called                             *)
ServeRequest ==
    /\ http.pc \in {"idle", "responded"}
    /\ calls < MaxCalls
    /\ \E path \in PathSymbols, sizeStr \in QuerySizes, bg \in Backgrounds :
         LET symbol == ToUpper(path)
             h == [IdleHttp EXCEPT !.symbol = symbol, !.size = sizeStr, !.bg = bg,
                                   !.prev = IF http.pc = "idle" THEN IdleHttp.prev
                                            ELSE [symbol |-> http.symbol, size |-> http.size,
                                                  bg |-> http.bg, code |-> http.code,
                                                  body |-> http.body]]
         IN IF ~ValidSize(sizeStr)
            THEN /\ http' = [h EXCEPT !.pc = "responded", !.code = 400]
                 /\ task' = task
            ELSE /\ http' = [h EXCEPT !.pc = "service"]
                 /\ task' = [task EXCEPT ![Server] =
                       [IdleTask EXCEPT !.pc = "fromCache", !.op = "GetLogo",
                                        !.symbol = symbol, !.size = sizeStr]]
    /\ calls' = calls + 1
    /\ UNCHANGED <<logos, nextId, blobs, producedBy, faults, Config, ServeFrame>>

(* variant: the flattened image is written over the cached file *)
ServeRespondPersists ==
    LET t == task[Server]
        bgd == ApplyBackground(t.ret.data, http.bg)
    IN
    /\ http.pc = "service" /\ t.pc = "done"
    /\ http' = IF t.ret.err # ErrNil THEN Respond(404, NoBlob)
               ELSE IF http.bg = << >> THEN Respond(200, t.ret.data)
               ELSE IF bgd.err # ErrNil THEN Respond(400, NoBlob)
               ELSE Respond(200, bgd.data)
    /\ blobs' = IF t.ret.err = ErrNil /\ http.bg # << >> /\ bgd.err = ErrNil
                THEN FsWrite(blobs, http.symbol, http.size, bgd.data, FALSE).fs
                ELSE blobs
    /\ UNCHANGED <<logos, nextId, task, producedBy, calls, faults, Config, ServeFrame>>

(* LogoService.GetLogo has returned: 404 on an error; with a bg parameter *)
(* ApplyBackground on the bytes returned, 400 when it fails; 200 and the  *)
(* bytes otherwise                                                        *)
ServeRespond ==
    LET t == task[Server]
        bgd == ApplyBackground(t.ret.data, http.bg)
    IN
    /\ http.pc = "service" /\ t.pc = "done"
    /\ http' = IF t.ret.err # ErrNil THEN Respond(404, NoBlob)
               ELSE IF http.bg = << >> THEN Respond(200, t.ret.data)
               ELSE IF bgd.err # ErrNil THEN Respond(400, NoBlob)
               ELSE Respond(200, bgd.data)
    /\ UNCHANGED <<Core, ServeFrame>>

ServeNext ==
    \/ ServeRequest
    \/ FromCacheLookup(Server)
    \/ FromCacheRead(Server)
    \/ AcquireGitHub(Server)
    \/ AcquireLLM(Server)
    \/ Upsert(Server)
    \/ CreateRecord(Server)
    \/ ProcessAllStep(Server)
    \/ MarkFailed(Server)
    \/ MarkSize(Server)
    \/ MarkProcessed(Server)
    \/ FinalRead(Server)
    \/ ServeRespond

SpecServe == ServeInit /\ [][ServeNext]_vars

(* the request being served is answered from the cache: the lookup found *)
(* the record processed with the size, and no provider was called        *)
FromCache(t) == t.op = "GetLogo" /\ t.hit /\ t.trace = << >> /\ ~t.wrote

(* C30: serving with a background colour changes no stored state.  Every  *)
(* step of a request with a bg parameter that is answered from the cache  *)
(* leaves all records and all blobs as they were; its 200 response is not *)
(* the stored blob; and a request without bg answered from the cache      *)
(* after it gets exactly the stored transparent bytes.                    *)
C30_BackgroundNotPersisted ==
    [][LET t == task'[Server]
           k == <<http'.symbol, http'.size>>
       IN /\ (http'.pc \in {"service", "responded"} /\ http'.bg # << >>
                  /\ ValidSize(http'.size) /\ FromCache(t)) =>
                /\ logos' = logos /\ blobs' = blobs
                /\ (http'.pc = "responded" /\ http'.code = 200) =>
                      /\ http'.body # blobs'[k]
                      /\ t.ret.data = blobs'[k]
          /\ (http'.pc = "responded" /\ http'.bg = << >>
                  /\ ValidSize(http'.size) /\ FromCache(t)) =>
                /\ http'.code = 200
                /\ http'.body = blobs'[k]
                /\ blobs' = blobs
                /\ (http'.prev.symbol = http'.symbol /\ http'.prev.size = http'.size
                        /\ http'.prev.code = 200 /\ http'.prev.bg # << >>) =>
                      http'.body # http'.prev.body
      ]_vars

(* a cached logo was served with a white background, and the request *)
(* after it, without bg, is answered from the cache                  *)
C30_Witness ==
    /\ http.pc = "responded" /\ http.bg = << >> /\ http.code = 200
    /\ FromCache(task[Server])
    /\ http.prev.symbol = http.symbol /\ http.prev.size = http.size
    /\ http.prev.code = 200 /\ http.prev.bg # << >>
    /\ "background" \in DOMAIN http.prev.body
    /\ http.prev.body.background = <<255, 255, 255>>
    /\ http.body = blobs[<<http.symbol, http.size>>]
    /\ "background" \notin DOMAIN http.body

(* C31: the serving route answers 400 to an invalid size token without    *)
(* calling the orchestrator, 404 to any error of LogoService.GetLogo, 400 *)
(* to a bg parameter that is not six hexadecimal digits after an optional *)
(* "#", and 400 in no other case.                                         *)
C31_RouteOutcomes ==
    [][LET t == task[Server]
           q == http'.bg
           h == IF Len(q) > 0 /\ q[1] = "#" THEN SubSeq(q, 2, Len(q)) ELSE q
           badColor == q # << >> /\ ~SixHexDigits(h)
       IN (http.pc # "responded" /\ http'.pc = "responded") =>
            IF ~ValidSize(http'.size)
            THEN http'.code = 400 /\ task' = task /\ http.pc # "service"
            ELSE /\ http.pc = "service" /\ t.pc = "done"
                 /\ http'.code = (IF t.ret.err # ErrNil THEN 404
                                  ELSE IF badColor THEN 400 ELSE 200)
      ]_vars

----------------------------------------------------------------------------
(* middleware.RateLimit(rps, burst): the closure keeps a map of limiters   *)
(* under a mutex, one rate.Limiter per API key.  Time is counted in token  *)
(* intervals (1 / rps).  In this specification "limiter" is the closure's  *)
(* state and "http" the requests that went through the middleware.         *)

ApiKeys == {"key-a", "key-b"}

(* a request the auth middleware set no api_key on *)
NoApiKey == "none"

Bursts == {1, 2}

NoLimiter == [absent |-> TRUE]

Min(a, b) == IF a < b THEN a ELSE b

(* rate.NewLimiter(rate.Limit(rps), burst): the bucket starts full *)
NewLimiter(burst, t) == [absent |-> FALSE, tokens |-> burst, last |-> t]

(* rate.Limiter.Allow at time t: the tokens of the elapsed intervals are *)
(* added up to the burst; a token is taken if there is one               *)
Allow(lim, burst, t) ==
    LET tokens == Min(burst, lim.tokens + (t - lim.last)) IN
    IF tokens >= 1
    THEN [ok |-> TRUE, lim |-> [lim EXCEPT !.tokens = tokens - 1, !.last = t]]
    ELSE [ok |-> FALSE, lim |-> lim]

(* variant: every key is looked up under the same map key *)
LimiterKeyShared(apiKey) == "key-a"

(* limiters[apiKey] *)
LimiterKey(apiKey) == apiKey

RateInit ==
    /\ CoreIdle /\ NoProviders /\ FsIdle /\ AgentIdle /\ ImportIdle
    /\ llmCalls = << >> /\ backends = [c \in LlmClients |-> "ok"]
    /\ req = [w \in Workers |-> IdleReq]
    /\ now = 0
    /\ \E burst \in Bursts :
         limiter = [burst |-> burst, limiters |-> [k \in ApiKeys |-> NoLimiter]]
    /\ http = [log |-> << >>]

RateFrame == <<Core, FsVars, AgentVars, ImportVars, now, llmCalls, backends, req>>

(* one request goes through the middleware *)
RateRequest ==
    /\ Len(http.log) < MaxCalls
    /\ \E apiKey \in ApiKeys \cup {NoApiKey} :
         IF apiKey = NoApiKey
         THEN /\ http' = [log |-> Append(http.log, [key |-> apiKey, at |-> now, code |-> 200])]
              /\ limiter' = limiter
         ELSE LET k == LimiterKey(apiKey)
                  lim == IF limiter.limiters[k] = NoLimiter
                         THEN NewLimiter(limiter.burst, now)
                         ELSE limiter.limiters[k]
                  a == Allow(lim, limiter.burst, now)
              IN /\ limiter' = [limiter EXCEPT !.limiters[k] = a.lim]
                 /\ http' = [log |-> Append(http.log,
                                 [key |-> apiKey, at |-> now,
                                  code |-> IF a.ok THEN 200 ELSE 429])]
    /\ UNCHANGED RateFrame

RateNext == RateRequest \/ Tick

SpecRate == RateInit /\ [][RateNext]_vars

(* the requests of a key so far, in order *)
OfKey(log, key) == SelectSeq(log, LAMBDA e : e.key = key)

Passed(log) == SelectSeq(log, LAMBDA e : e.code = 200)

(* C32: one bucket per API key.  Of the requests of a key that all come at *)
(* the time of its first one, the first burst pass and every later one is  *)
(* answered 429; and a request is rejected only when its own key has had   *)
(* at least burst requests pass, whatever the other keys did.              *)
C32_PerKeyBuckets ==
    \A key \in ApiKeys :
        LET mine == OfKey(http.log, key) IN
        /\ \A i \in 1..Len(mine) :
              mine[i].at = mine[1].at =>
                 mine[i].code = (IF i <= limiter.burst THEN 200 ELSE 429)
        /\ \A i \in 1..Len(mine) :
              mine[i].code = 429 => Len(Passed(SubSeq(mine, 1, i - 1))) >= limiter.burst

(* key-a has used its burst of one and is rejected; key-b passes after it *)
C32_Witness ==
    /\ limiter.burst = 1
    /\ Len(http.log) >= 3
    /\ \A i \in 1..2 : http.log[i].key = "key-a" /\ http.log[i].at = 0
    /\ http.log[1].code = 200 /\ http.log[2].code = 429
    /\ http.log[3].key = "key-b" /\ http.log[3].at = 0 /\ http.log[3].code = 200

----------------------------------------------------------------------------
(* The two backends side by side *)

OtherClient(client) == IF client = "anthropic" THEN "openai" ELSE "anthropic"

(* the same response as the other backend's API words it *)
AsSeenBy(client, resp) ==
    [resp EXCEPT !.stop =
        CASE resp.stop \in {"end_turn", "stop"} ->
                 (IF client = "anthropic" THEN "end_turn" ELSE "stop")
          [] resp.stop \in {"tool_use", "tool_calls"} ->
                 (IF client = "anthropic" THEN "tool_use" ELSE "tool_calls")
          [] OTHER -> (IF client = "anthropic" THEN "max_tokens" ELSE "length")]

(* the responses the comparison is about: a message whose submit calls, *)
(* if any, carry arguments that parse                                    *)
Classified(resp) ==
    /\ resp.kind = "message"
    /\ \A j \in 1..Len(resp.tools) :
          resp.tools[j].name = "submit_logo_url" => resp.tools[j].args.ok

OutcomeClass(err) ==
    CASE err = "nil" -> "result"
      [] err \in {"did not find a logo URL", "ended without finding a logo"} -> "NoLogoFound"
      [] err = "exceeded max turns without finding logo" -> "ExceededMaxTurns"
      [] OTHER -> "other"

(* the loop of a backend fed with the responses h, from turn k on *)
RECURSIVE RunLoop(_, _, _)
RunLoop(client, h, k) ==
    IF k > MaxTurns
    THEN [turns |-> MaxTurns, err |-> "exceeded max turns without finding logo"]
    ELSE IF k > Len(h) THEN [turns |-> k, err |-> "running"]
    ELSE LET out == Turn(client, AsSeenBy(client, h[k])) IN
         IF out.done THEN [turns |-> k, err |-> out.err]
         ELSE RunLoop(client, h, k + 1)

(* C33: the two backends run the same loop: fed with the responses that   *)
(* one backend's call received, the other backend's loop stops after the  *)
(* same number of turns in the same outcome class.                        *)
C33_LoopsAgree ==
    (agent.pc = "done" /\ \A k \in 1..Len(agent.history) : Classified(agent.history[k])) =>
        LET o == RunLoop(OtherClient(agent.client), agent.history, 1) IN
        /\ o.turns = Len(agent.history)
        /\ OutcomeClass(o.err) = OutcomeClass(agent.ret.err)

----------------------------------------------------------------------------
(* GitHubProvider.downloadFile and LLMProvider.downloadImage: one GET and  *)
(* the read of its body.  A body is known by its length in bytes; what a   *)
(* download returns is the prefix of the body of the length read.  In this *)
(* specification "github" holds the download under way.                    *)

(* 10<<20 *)
DownloadCap == 10485760

Downloaders == {"downloadFile", "downloadImage"}

HttpStatuses == {200, 404, 500}

BodySizes == {0, 1, DownloadCap - 1, DownloadCap, DownloadCap + 1, 2 * DownloadCap}

IdleDownload ==
    [pc |-> "idle", by |-> "none", do |-> "none", status |-> 0, body |-> 0, read |-> "none",
     ret |-> [err |-> "running", size |-> 0]]

(* io.ReadAll(io.LimitReader(resp.Body, 10<<20)): the reader reports EOF *)
(* once the cap is reached, ReadAll returns what was read with no error  *)
LimitRead(body, cap, readErr) ==
    IF readErr THEN [err |-> "reading body", size |-> 0]
    ELSE [err |-> ErrNil, size |-> IF body < cap THEN body ELSE cap]

(* the body of downloadFile, which downloadImage repeats *)
Download(doErr, status, body, readErr) ==
    IF doErr THEN [err |-> "downloading", size |-> 0]
    ELSE IF status # 200 THEN [err |-> "HTTP status", size |-> 0]
    ELSE LimitRead(body, DownloadCap, readErr)

DownloadInit ==
    /\ CoreIdle /\ NoProviders /\ FsIdle /\ LlmIdle /\ AgentIdle /\ HttpIdle
    /\ imp = IdleImport
    /\ github = IdleDownload

DownloadFrame == <<Core, FsVars, LlmVars, AgentVars, HttpVars, imp>>

(* a provider starts a download; the server answers *)
DownloadCall ==
    /\ github.pc \in {"idle", "done"}
    /\ \E by \in Downloaders, doErr \in BOOLEAN, status \in HttpStatuses,
          body \in BodySizes, readErr \in BOOLEAN :
         github' = [IdleDownload EXCEPT !.pc = "get", !.by = by,
                       !.do = IF doErr THEN "error" ELSE "response",
                       !.status = status, !.body = body,
                       !.read = IF readErr THEN "error" ELSE "eof"]
    /\ UNCHANGED DownloadFrame

(* the download returns *)
DownloadReturn ==
    /\ github.pc = "get"
    /\ github' = [github EXCEPT !.pc = "done",
                     !.ret = Download(github.do = "error", github.status, github.body,
                                      github.read = "error")]
    /\ UNCHANGED DownloadFrame

DownloadNext == DownloadCall \/ DownloadReturn

SpecDownload == DownloadInit /\ [][DownloadNext]_vars

(* C34: downloads are capped at 10 MiB: a response body larger than the *)
(* cap makes the download fail, and a download that succeeds returns    *)
(* the whole body, never a truncated prefix of it.                      *)
C34_DownloadCapped ==
    github.pc = "done" =>
        /\ (github.do = "response" /\ github.status = 200 /\ github.body > 10485760)
              => github.ret.err # ErrNil
        /\ github.ret.err = ErrNil => github.ret.size = github.body

----------------------------------------------------------------------------
(* The administrative import route: AdminHandler.Import starts BulkImport  *)
(* in a goroutine of its own with context.Background() and answers 202;    *)
(* the callback makes a background context for every repository call.  The *)
(* server's main waits for SIGINT or SIGTERM, calls srv.Shutdown and        *)
(* returns.  "http" is the POST request, "imp" the goroutine.               *)

ImportSources == {"all", "github", "llm"}

AdminInit == ImportStart({"makeImportCallback"})

(* POST /api/v1/admin/import?source=.. *)
AdminImport ==
    /\ http.pc = "idle" /\ imp.pc = "idle"
    /\ \E source \in ImportSources :
         IF source \notin {"all", "github"}
         THEN /\ http' = [http EXCEPT !.pc = "responded", !.code = 400]
              /\ imp' = imp
         ELSE /\ http' = [http EXCEPT !.pc = "responded", !.code = 202]
              /\ imp' = [IdleImport EXCEPT !.pc = "repo", !.callback = imp.callback,
                                           !.r = 1, !.runs = imp.runs + 1,
                                           !.before = <<logos, blobs>>]
    /\ UNCHANGED <<github, Core, FsVars, LlmVars, AgentVars>>

(* the request is over or the client has gone: the context of the request *)
(* is cancelled; the goroutine holds context.Background()                 *)
AdminRequestEnds ==
    /\ http.pc = "responded"
    /\ http' = [http EXCEPT !.pc = "closed"]
    /\ UNCHANGED <<github, imp, Core, FsVars, LlmVars, AgentVars>>

(* SIGINT or SIGTERM arrives: main leaves its select and calls srv.Shutdown *)
AdminSignal ==
    /\ ~http.signal
    /\ http' = [http EXCEPT !.signal = TRUE]
    /\ UNCHANGED <<github, imp, Core, FsVars, LlmVars, AgentVars>>

(* srv.Shutdown has returned and main returns: the process ends, and the *)
(* goroutine of the import with it, wherever it is                       *)
AdminExit ==
    /\ http.signal
    /\ imp.pc \notin {"idle", "done", "exited"}
    /\ imp' = [imp EXCEPT !.pc = "exited"]
    /\ UNCHANGED <<github, http, Core, FsVars, LlmVars, AgentVars>>

AdminNext ==
    \/ AdminImport
    \/ AdminRequestEnds
    \/ AdminSignal
    \/ AdminExit
    \/ ImpFetchTree
    \/ ImpSkipEntry
    \/ ImpCandidate
    \/ ImpDownloadFails
    \/ ImpDownload
    \/ ImpCallbackReturned
    \/ ImpRepoDone
    \/ ImpReturn
    \/ ImportCallback(Importer)
    \/ CreateRecord(Importer)
    \/ ProcessAllStep(Importer)
    \/ MarkFailed(Importer)
    \/ MarkSize(Importer)
    \/ MarkProcessed(Importer)

SpecAdmin == AdminInit /\ [][AdminNext]_vars

(* C35: the import started by the administrative route does not depend on *)
(* the request: the end of the request changes nothing of the import,     *)
(* whose context stays live; and once a cancellation signal was raised    *)
(* the import processes no further candidate and is not cut off inside    *)
(* one.                                                                   *)
C35_IndependentCancellable ==
    [][/\ (http.pc = "responded" /\ http'.pc = "closed") =>
              imp' = imp /\ imp.ctx = "live"
       /\ http.signal =>
            /\ ~(imp.pc = "download" /\ imp'.pc = "callback")
            /\ (imp.pc # "exited" /\ imp'.pc = "exited") => imp.pc \in {"repo", "entry"}
      ]_vars

(* C36: a record comes into being only in the Create of the ingestion     *)
(* routine, in status pending, for a symbol without record and with the   *)
(* bytes a provider returned; the steps of a GetLogo before its ingestion *)
(* (cache lookup, cache read, the providers) change neither store, and a  *)
(* GetLogo that ends with every provider having missed has written        *)
(* nothing.                                                               *)
C36_CreatedOnlyOnIngest ==
    [][/\ \A s \in DOMAIN logos :
            (logos[s] = NoRecord /\ logos'[s] # NoRecord) =>
               /\ logos'[s].status = StatusPending
               /\ \E w \in Workers :
                     /\ task[w].pc = "create" /\ task'[w].pc = "processAll"
                     /\ task[w].result.symbol = s
                     /\ task[w].result.image \in Images
       /\ \A w \in Workers :
            (/\ task'[w] # task[w]
             /\ task[w].op = "GetLogo"
             /\ task[w].pc \in {"fromCache", "cacheRead", "acquire", "acquireLLM"}) =>
               logos' = logos /\ blobs' = blobs /\ nextId' = nextId
       /\ \A w \in Workers :
            (task'[w].pc = "done" /\ task'[w].ret.err = "no provider found a logo") =>
               /\ ~task'[w].wrote
               /\ task'[w].results = << >>
      ]_vars

(* a GetLogo ended with every provider having missed and no record exists, *)
(* after both layers were tried                                            *)
C36_Witness ==
    \E w \in Workers :
        /\ task[w].pc = "done" /\ task[w].op = "GetLogo"
        /\ task[w].ret.err = "no provider found a logo"
        /\ task[w].trace = <<"github", "llm">>
        /\ logos[task[w].symbol] = NoRecord
        /\ \A z \in Sizes : blobs[<<task[w].symbol, z>>] = NoBlob

(* C37: when ProcessAndStore returns nil for a symbol, the symbol has a *)
(* record and its status is processed.                                  *)
C37_SuccessMeansProcessed ==
    [][\A w \in Workers :
        LET t == task[w]
            u == task'[w]
        IN (/\ t.pc # "done" /\ u.pc = "done"
            /\ u.op = "ProcessAndStore"
            /\ u.ret.err = ErrNil) =>
              /\ logos'[u.result.symbol] # NoRecord
              /\ logos'[u.result.symbol].status = StatusProcessed
      ]_vars

(* C38: in every state reached through the orchestrator a size flag that *)
(* is set in a record has its blob in the Blob Store.                    *)
C38_FlagImpliesBlob ==
    \A s \in DOMAIN logos :
        logos[s] # NoRecord =>
            \A z \in logos[s].flags : blobs[<<s, z>>] # NoBlob

(* an ingestion is marking its sizes: some flags are set, others not yet, *)
(* and all five blobs are written                                         *)
C38_Witness ==
    \E s \in DOMAIN logos :
        /\ logos[s] # NoRecord
        /\ logos[s].status = StatusPending
        /\ logos[s].flags # {} /\ logos[s].flags # Sizes
        /\ \A z \in Sizes : blobs[<<s, z>>] # NoBlob

----------------------------------------------------------------------------
(* GetLogo on a record that is processed but lacks a flag.  The record is *)
(* what processAndStore leaves when one SetSizeAvailable failed: status   *)
(* processed, five blobs written, four flags.                             *)
RepairInit ==
    /\ \E z \in ReqSizes, source \in Sources :
         logos = [s \in Symbols |->
                    [id |-> 1, symbol |-> s, source |-> source,
                     flags |-> Sizes \ {z}, status |-> StatusProcessed,
                     error_message |-> NULL]]
    /\ nextId = 2
    /\ blobs = [k \in Symbols \X Sizes |-> Resized("png", k[2])]
    /\ task = [w \in Workers |-> IdleTask]
    /\ \E c \in Configs : repos = c[1] /\ llmProvider = c[2]
    /\ producedBy = [s \in Symbols |-> Sizes]
    /\ calls = 0
    /\ running = {"w1"} /\ faults = 0
    /\ RestIdle

RepairNext ==
    \E w \in Workers :
        \/ CallGetLogo(w)
        \/ FromCacheLookup(w)
        \/ FromCacheRead(w)
        \/ AcquireGitHub(w)
        \/ AcquireLLM(w)
        \/ Upsert(w)
        \/ ProcessAllStep(w)
        \/ MarkFailed(w)
        \/ MarkSize(w)
        \/ MarkProcessed(w)
        \/ FinalRead(w)

SpecRepair == RepairInit /\ [][RepairNext]_vars

(* C39: a processed record that lacks the flag of size Z is never repaired: *)
(* a GetLogo for Z misses the cache and goes to the providers, the          *)
(* ingestion that follows ends at the lookup without touching the record,   *)
(* and the flag of Z stays unset.                                           *)
C39_NeverRepaired ==
    [][\A w \in Workers :
        LET t == task[w]
            rec == logos[t.symbol]
            lacking == /\ t.op = "GetLogo"
                       /\ rec # NoRecord
                       /\ rec.status = StatusProcessed
                       /\ t.size \notin rec.flags
        IN
        /\ (lacking /\ t.pc = "fromCache" /\ task'[w] # t)
               => task'[w].pc = "acquire"
        /\ (lacking /\ t.pc = "upsert" /\ task'[w] # t)
               => task'[w].pc = "finalRead"
        /\ lacking => (logos'[t.symbol] # NoRecord
                         /\ t.size \notin logos'[t.symbol].flags)
      ]_vars

(* C40: no operation of the orchestrator, the providers or the bulk-import *)
(* callback assigns the status not_found: every record is pending,         *)
(* processed or failed, and a GetLogo for a symbol without record always   *)
(* goes from the cache lookup to the providers.                            *)
C40_NotFoundNeverAssigned ==
    [][/\ \A s \in DOMAIN logos :
             logos'[s] # NoRecord =>
                 logos'[s].status \in {StatusPending, StatusProcessed, StatusFailed}
       /\ \A w \in Workers :
             (/\ task[w].op = "GetLogo" /\ task[w].pc = "fromCache"
              /\ logos[task[w].symbol] = NoRecord
              /\ task'[w] # task[w])
             => (task'[w].pc = "acquire" /\ ~task'[w].hit)
      ]_vars

(* a later GetLogo for a symbol that still has no record went through the *)
(* providers again and found none                                         *)
C40_Witness ==
    \E w \in Workers :
        /\ calls >= 2
        /\ task[w].op = "GetLogo" /\ task[w].pc = "done"
        /\ logos[task[w].symbol] = NoRecord
        /\ task[w].cache.seen = ErrNotFound
        /\ task[w].trace # << >>
        /\ task[w].ret.err = ErrNoProvider
====
